---------------------------- MODULE Spec2Model ----------------------------
(***************************************************************************)
(* Omie pipeline: rate-limited retrying API client, record store (SQLite   *)
(* table "notas"), XML downloaders (asyncio and thread pool) and the       *)
(* filesystem reconcilers, modelled from src/src/*.py and src/*.py.        *)
(*                                                                         *)
(* The module holds several specifications over one set of variables:      *)
(*   SpecClient    one logical invoke: call_api_com_retentativa wrapping   *)
(*                 OmieClient.call_api                                     *)
(*   SpecUpsert    the store under salvar_varias_notas, salvar_nota and    *)
(*                 atualizar_status_xml                                    *)
(*   SpecUpsertBd  SpecUpsert on a database that may reject a lot of       *)
(*                 salvar_varias_notas                                     *)
(*   SpecDownload  one Downloader run, task by task: baixar_xmls with      *)
(*                 baixar_xml_individual (asyncio) or                      *)
(*                 baixar_xmls_em_parallel with baixar_uma_nota (threads)  *)
(*   SpecDownloadFair  SpecDownload with the steps that can be taken taken *)
(*   SpecResume    Downloader runs one after the other, a run being        *)
(*                 completed or killed at any point                        *)
(*   SpecPipeline  the stages that write the store, a whole stage per      *)
(*                 step: harvest, download, and the two reconcilers        *)
(*   SpecHarvest   one Harvester run, page by page: listar_nfs and the     *)
(*                 main that calls it                                      *)
(*   SpecStore     the store's operations on complete rows: upsert, status *)
(*                 updates, purge, anomesdia backfill, reconciliation      *)
(*   SpecResolve   gerar_xml_path and gerar_xml_path_otimizado over a day  *)
(*                 directory that fills up                                 *)
(*   SpecRace      a Downloader run and a Reconciler run on the same rows, *)
(*                 query by query and write by write                       *)
(*   SpecGate      the three rate gates (respeitar_limite_requisicoes and  *)
(*                 its variants) called by callers that run together       *)
(*   SpecLock      criar_lockfile called by two processes                  *)
(*   SpecIdx       the Reconciler's file index, future by future, built    *)
(*                 twice over the same files                               *)
(* Every specification leaves the variables of the other parts at their    *)
(* initial values.                                                         *)
(***************************************************************************)
EXTENDS Integers, Sequences, FiniteSets, TLC

VARIABLES
    inv,        \* the state of one logical invoke (SpecClient)
    store,      \* table "notas": cChaveNFe -> row, for the keys present
    disk,       \* the XML file of each key: ausente, vazio, branco or xml
                \* (SpecResolve: the day directory and the files under it)
    ret,        \* what the last store operation returned
    run,        \* one Downloader run: mode, phase, semaphores, configuration
    tarefa,     \* the download task of each pending row of the run
    escritas,   \* keys whose file a download task of the run has written
    colheita    \* one Harvester run: page, requests made, server, outcome

vars == <<inv, store, disk, ret, run, tarefa, escritas, colheita>>
dlVars == <<run, tarefa, escritas, colheita>>

(***************************************************************************)
(* PART 1.  The API client: OmieClient.call_api and its wrapper.           *)
(***************************************************************************)

\* omie_client_async.py:48   max_retries = 5
max_retries == 5
\* extrator_async.py:98      max_retentativas = 5
max_retentativas == 5

\* The two methods of the domain (omie_client_async.py:40).
Metodos == {"ListarNF", "ObterNfe"}

\* What one HTTP POST of call_api can end in:
\*   200_dict      status 2xx, JSON body is a dict
\*   200_nao_dict  status 2xx, JSON body is not a dict (ValueError, line 71)
\*   429, 5xx      the statuses tested at lines 55 and 61
\*   4xx           another client error: raise_for_status() raises
\*                 aiohttp.ClientResponseError, a subclass of ClientError
\*   erro_rede     session.post raises aiohttp.ClientError
\*   timeout       asyncio.TimeoutError
Respostas == {"200_dict", "200_nao_dict", "429", "5xx", "4xx", "erro_rede", "timeout"}

\* Waits are kept in half seconds so that 1.5 * attempt stays an integer.
\* A backoff that shrinks with the attempt number (mutant of Delay429).
Delay429_decrescente(attempt) == 2 * (2 ^ (max_retries - attempt))

\* omie_client_async.py:56   delay = 2 ** attempt
Delay429(attempt) == 2 * (2 ^ attempt)
\* omie_client_async.py:62,77,81,85   1.5 * attempt
DelayLinear(attempt) == 3 * attempt

\* The wait call_api sleeps after a response that does not return
\* (omie_client_async.py:55-85): every branch but the return sleeps.
DelayDe(r, attempt) == IF r = "429" THEN Delay429(attempt) ELSE DelayLinear(attempt)

\* TRUE when call_api sleeps while it still holds self.semaphore: the 429 and
\* 5xx branches sleep inside "async with self.semaphore" (lines 51-65); the
\* except branches sleep after the with block was left (lines 75-85).
DormeNoSemaforo(r) == r \in {"429", "5xx"}

\* An off-by-one loop bound (mutant of UltimaTentativa).
UltimaTentativa_mais_uma(attempt) == attempt > max_retries

\* for attempt in range(1, max_retries + 1): the loop ends after max_retries.
UltimaTentativa(attempt) == attempt >= max_retries

\* omie_client_async.py:87: the error raised when the loop is exhausted.
FalhaPermanente(metodo) ==
    [tipo |-> "RuntimeError", metodo |-> metodo, tentativas |-> max_retries]

Sucesso == [tipo |-> "ok", metodo |-> "", tentativas |-> 0]
SemResultado == [tipo |-> "nenhum", metodo |-> "", tentativas |-> 0]

\* call_api_com_retentativa (extrator_async.py:92-125) seen from the outcome
\* of its call to client.call_api at wrapper attempt `tentativa`:
\*   "retorna"   return the response (line 102)
\*   "repete"    aiohttp.ClientResponseError with 429 or >= 500: sleep, loop
\*   "propaga"   any other exception: raise (lines 117-123)
\* call_api never lets a ClientResponseError out (it catches Exception), so
\* the wrapper only ever sees a return value or the RuntimeError of line 87.
WrapperTrata(resultado) ==
    CASE resultado.tipo = "ok" -> "retorna"
      [] resultado.tipo = "ClientResponseError_429" -> "repete"
      [] resultado.tipo = "ClientResponseError_5xx" -> "repete"
      [] OTHER -> "propaga"

InitInvoke(m) ==
    [ metodo    |-> m,
      tentativa |-> 1,            \* wrapper loop variable
      attempt   |-> 1,            \* call_api loop variable
      cpc       |-> "pronto",     \* pronto | dormindo | fim
      requests  |-> 0,            \* HTTP requests issued
      hist      |-> << >>,        \* the responses, in order
      waits     |-> << >>,        \* the sleeps, in half seconds, in order
      result    |-> SemResultado ]

\* One attempt of call_api: the POST is issued and answered by r.
Post(r) ==
    /\ inv.cpc = "pronto"
    /\ UNCHANGED <<store, disk, ret, dlVars>>
    /\ inv' = IF r = "200_dict"
              THEN [inv EXCEPT !.requests = @ + 1,
                               !.hist = Append(@, r),
                               !.cpc = "fim",
                               !.result = Sucesso]
              ELSE [inv EXCEPT !.requests = @ + 1,
                               !.hist = Append(@, r),
                               !.waits = Append(@, DelayDe(r, inv.attempt)),
                               !.cpc = "dormindo"]

\* The backoff sleep ends: next attempt, or the loop is exhausted, the
\* RuntimeError of line 87 is raised and the wrapper re-raises it.
Acorda ==
    /\ inv.cpc = "dormindo"
    /\ UNCHANGED <<store, disk, ret, dlVars>>
    /\ IF UltimaTentativa(inv.attempt)
       THEN LET res == FalhaPermanente(inv.metodo) IN
            IF WrapperTrata(res) = "repete" /\ inv.tentativa < max_retentativas
            THEN inv' = [inv EXCEPT !.tentativa = @ + 1, !.attempt = 1,
                                    !.cpc = "pronto"]
            ELSE inv' = [inv EXCEPT !.cpc = "fim", !.result = res]
       ELSE inv' = [inv EXCEPT !.attempt = @ + 1, !.cpc = "pronto"]

InitClient ==
    /\ inv \in {InitInvoke(m) : m \in Metodos}
    /\ store = << >>
    /\ disk = << >>
    /\ ret = << >>
    /\ run = << >>
    /\ tarefa = << >>
    /\ escritas = {}
    /\ colheita = << >>

NextClient ==
    \/ \E r \in Respostas : Post(r)
    \/ Acorda

SpecClient == InitClient /\ [][NextClient]_vars

(***************************************************************************)
(* PART 2.  The record store: table "notas" (src/src/utils.py).            *)
(***************************************************************************)

\* Number of distinct well-formed (44 character) keys of the model.
NumChaves == 2
Chaves == 1 .. NumChaves
\* cChaveNFe is None (normalizar_nota: nf["compl"].get("cChaveNFe")).
ChaveAusente == 0
\* A non-empty key that is not 44 characters long.
ChaveCurta == -1
TodasChaves == Chaves \cup {ChaveCurta}

\* SQL NULL in caminho_arquivo; the path of key k's file is written k.
NULO == 0

\* Longest list handed to salvar_varias_notas, and largest tamanho_lote tried.
MaxRegistros == 2
MaxLote == 2

\* The records a caller may submit. dEmi: "br" dd/mm/yyyy, "iso" yyyy-mm-dd,
\* "invalida" a non-empty string normalizar_data cannot parse, "vazia" None or
\* blank. nNF: "ok" or "vazio". nIdNF: 1 (an identifier) or NULO. One well-formed record per key, one record
\* without key, one with a short key, one without emission date.
Registros ==
    [chave : TodasChaves \cup {ChaveAusente}, nIdNF : {1}, dEmi : {"br"}, nNF : {"ok"}]
      \cup {[chave |-> 1, nIdNF |-> 1, dEmi |-> "vazia", nNF |-> "ok"]}

\* utils.py:686-747 normalizar_data, on the format of its argument.
normalizar_data(d) ==
    CASE d = "br" -> "iso"
      [] d = "iso" -> "iso"
      [] OTHER -> "nulo"

\* utils.py:3090-3123 _validar_registro_nota: TRUE when it does not raise.
ValidarRegistroNota(r) ==
    /\ r.chave \in Chaves
    /\ r.dEmi # "vazia"
    /\ r.nNF # "vazio"

\* utils.py:899-906 transformar_em_tuple: TRUE when it does not raise.
Transformavel(r) ==
    /\ r.chave # ChaveAusente
    /\ r.dEmi # "vazia"
    /\ r.nNF # "vazio"

\* utils.py:930-953 transformar_em_tuple: the row inserted for r
\* (caminho_arquivo None, xml_baixado 0; xml_vazio takes the schema default 0).
transformar_em_tuple(r) ==
    [ cChaveNFe       |-> r.chave,
      nIdNF           |-> r.nIdNF,
      dEmi            |-> normalizar_data(r.dEmi),
      xml_baixado     |-> 0,
      caminho_arquivo |-> NULO,
      xml_vazio       |-> 0 ]

\* INSERT OR REPLACE instead of INSERT OR IGNORE (mutant of InsertOrIgnore).
InsertOrReplace(st, t) ==
    [k \in DOMAIN st \cup {t.cChaveNFe} |-> IF k = t.cChaveNFe THEN t ELSE st[k]]

\* utils.py:3374-3377 INSERT OR IGNORE INTO notas: one row.
InsertOrIgnore(st, t) ==
    IF t.cChaveNFe \in DOMAIN st
    THEN st
    ELSE [k \in DOMAIN st \cup {t.cChaveNFe} |-> IF k = t.cChaveNFe THEN t ELSE st[k]]

\* conn.executemany over dados_lote, in order.
RECURSIVE ExecuteMany(_, _)
ExecuteMany(st, dados) ==
    IF dados = << >> THEN st
    ELSE ExecuteMany(InsertOrIgnore(st, Head(dados)), Tail(dados))

\* registros[i : i + tamanho_lote] (Python slice, i counted from 0).
Fatia(regs, i, lote) ==
    SubSeq(regs, i + 1, IF i + lote < Len(regs) THEN i + lote ELSE Len(regs))

RECURSIVE Mapear(_)
Mapear(regs) ==
    IF regs = << >> THEN << >>
    ELSE <<transformar_em_tuple(Head(regs))>> \o Mapear(Tail(regs))

\* utils.py:3357-3390: the loop over the lots. acc carries the connection's
\* total_changes and the three running totals. falhas holds the numbers
\* (i // tamanho_lote + 1) of the lots whose executemany raises sqlite3.Error
\* at its first row: the except of lines 3388-3390 logs it, adds the lot to
\* total_erros and the loop goes on to the next lot.
RECURSIVE ProcessaLotes(_, _, _, _, _)
ProcessaLotes(acc, regs, i, lote, falhas) ==
    IF i >= Len(regs) THEN acc
    ELSE
      LET lote_atual == Fatia(regs, i, lote)
          bons       == SelectSeq(lote_atual, Transformavel)
          dados_lote == Mapear(bons)
          erros1     == acc.total_erros + (Len(lote_atual) - Len(bons))
          st1        == ExecuteMany(acc.st, dados_lote)
          changes1   == acc.total_changes
                          + (Cardinality(DOMAIN st1) - Cardinality(DOMAIN acc.st))
          inseridos_lote  == changes1 - acc.total_inseridos - acc.total_duplicatas
          duplicatas_lote == Len(dados_lote) - inseridos_lote
      IN IF dados_lote = << >>
         THEN ProcessaLotes([acc EXCEPT !.total_erros = erros1], regs, i + lote,
                            lote, falhas)
         ELSE IF (i \div lote) + 1 \in falhas
         THEN ProcessaLotes([acc EXCEPT !.total_erros = erros1 + Len(dados_lote)],
                            regs, i + lote, lote, falhas)
         ELSE ProcessaLotes(
                [ st               |-> st1,
                  total_changes    |-> changes1,
                  total_inseridos  |-> acc.total_inseridos + inseridos_lote,
                  total_duplicatas |-> acc.total_duplicatas + duplicatas_lote,
                  total_erros      |-> erros1 ],
                regs, i + lote, lote, falhas)

\* utils.py:3345 and 3367: the handler of a rejected record logs chave[:8],
\* where chave = registro.get('cChaveNFe', ...) is None for a record whose key
\* is None: TypeError. It is raised before the connection is opened (3345) or
\* inside it before the single commit of line 3392 (3367), so nothing is saved.
LevantaTypeError(registros) ==
    \E i \in DOMAIN registros : registros[i].chave = ChaveAusente

\* utils.py:3273-3425 salvar_varias_notas: the new store and the returned dict,
\* or levantou when the call raises. Every lot that did not fail is kept by
\* the single conn.commit() of line 3392.
salvar_varias_notas_bd(st, registros, validar_entrada, tamanho_lote, falhas) ==
    IF registros = << >>
    THEN [st |-> st, inseridos |-> 0, duplicatas |-> 0, erros |-> 0,
          levantou |-> FALSE]
    ELSE IF LevantaTypeError(registros)
    THEN [st |-> st, inseridos |-> 0, duplicatas |-> 0, erros |-> 0,
          levantou |-> TRUE]
    ELSE
      LET validos == IF validar_entrada
                     THEN SelectSeq(registros, ValidarRegistroNota)
                     ELSE registros
          acc0 == [ st |-> st, total_changes |-> 0, total_inseridos |-> 0,
                    total_duplicatas |-> 0,
                    total_erros |-> Len(registros) - Len(validos) ]
          fim == ProcessaLotes(acc0, validos, 0, tamanho_lote, falhas)
      IN [ st |-> fim.st, inseridos |-> fim.total_inseridos,
           duplicatas |-> fim.total_duplicatas, erros |-> fim.total_erros,
           levantou |-> FALSE ]

\* salvar_varias_notas on a database that accepts every statement.
salvar_varias_notas(st, registros, validar_entrada, tamanho_lote) ==
    salvar_varias_notas_bd(st, registros, validar_entrada, tamanho_lote, {})

\* utils.py:3125-3271 salvar_nota. The INSERT of an existing key raises
\* sqlite3.IntegrityError inside "with conexao_otimizada", whose except
\* sqlite3.Error turns it into DatabaseError (utils.py:1747-1750), so the
\* caller gets sucesso=False, duplicata=False. A None key raises TypeError at
\* line 3193, outside the try.
salvar_nota(st, r, validar_entrada) ==
    CASE r.chave = ChaveAusente ->
            [st |-> st, sucesso |-> FALSE, duplicata |-> FALSE, levantou |-> TRUE]
      [] r.chave # ChaveAusente /\ validar_entrada /\ ~ValidarRegistroNota(r) ->
            [st |-> st, sucesso |-> FALSE, duplicata |-> FALSE, levantou |-> FALSE]
      [] OTHER ->
            IF ~Transformavel(r) \/ r.chave \in DOMAIN st
            THEN [st |-> st, sucesso |-> FALSE, duplicata |-> FALSE, levantou |-> FALSE]
            ELSE [ st |-> InsertOrIgnore(st, transformar_em_tuple(r)),
                   sucesso |-> TRUE, duplicata |-> FALSE, levantou |-> FALSE ]

\* An UPDATE without its WHERE clause (mutant of atualizar_status_xml).
atualizar_status_xml_sem_where(st, dk, chave, caminho, xml_vazio) ==
    IF chave = ChaveAusente THEN st
    ELSE IF dk[caminho] = "ausente" THEN st
    ELSE [k \in DOMAIN st |-> [st[k] EXCEPT !.xml_baixado = 1,
                                            !.caminho_arquivo = caminho,
                                            !.xml_vazio = xml_vazio]]

\* utils.py:2098-2140 atualizar_status_xml(db_path, chave, caminho, xml_str,
\* rebaixado, xml_vazio=0): the new store. dk is the disk at the call.
atualizar_status_xml(st, dk, chave, caminho, xml_vazio) ==
    IF chave = ChaveAusente THEN st
    ELSE IF dk[caminho] = "ausente" THEN st
    ELSE IF chave \notin DOMAIN st THEN st
    ELSE [st EXCEPT ![chave] = [@ EXCEPT !.xml_baixado = 1,
                                         !.caminho_arquivo = caminho,
                                         !.xml_vazio = xml_vazio]]

\* utils.py:3041-3087 marcar_como_baixado(db_path, chave, caminho, rebaixado,
\* xml_vazio=0): the new store. The file is not looked at; cChaveNFe is the
\* primary key, so the UPDATE ... WHERE cChaveNFe = ? touches at most one row.
marcar_como_baixado(st, chave, caminho, xml_vazio) ==
    IF chave = ChaveAusente THEN st
    ELSE IF chave \notin DOMAIN st THEN st
    ELSE [st EXCEPT ![chave] = [@ EXCEPT !.xml_baixado = 1,
                                         !.caminho_arquivo = caminho,
                                         !.xml_vazio = xml_vazio]]

\* Number of records of a list that pass validation and transformation.
Validos(registros, validar_entrada) ==
    Len(SelectSeq(registros,
                  LAMBDA r : (validar_entrada => ValidarRegistroNota(r)) /\ Transformavel(r)))

ListasDeRegistros == UNION {[1 .. n -> Registros] : n \in 0 .. MaxRegistros}

SemRetorno ==
    [ op |-> "nenhuma", inseridos |-> 0, duplicatas |-> 0, erros |-> 0,
      levantou |-> FALSE, adicionadas |-> 0, validos |-> 0, existentes |-> 0,
      total |-> 0, novas |-> {} ]

\* Number of records of the list whose key was already a row before the call.
JaExistiam(st, registros) ==
    Cardinality({i \in DOMAIN registros : registros[i].chave \in DOMAIN st})

\* Keys of the records of a list that pass validation and transformation and
\* were not a row before the call.
ChavesNovas(st, registros, validar_entrada) ==
    {registros[i].chave : i \in
        {j \in DOMAIN registros :
            /\ validar_entrada => ValidarRegistroNota(registros[j])
            /\ Transformavel(registros[j])
            /\ registros[j].chave \notin DOMAIN st}}

\* What a caller of salvar_varias_notas sees. adicionadas (rows added), validos
\* (records that passed validation and transformation), existentes (records
\* whose key was a row before the call), total (records submitted) and novas
\* (keys of the valid records that were not rows) are measured on the input
\* and the store, not taken from the function's counters.
RetornoSalvarVarias(op, r, registros, validar_entrada) ==
    [ op |-> op,
      inseridos |-> r.inseridos, duplicatas |-> r.duplicatas,
      erros |-> r.erros, levantou |-> r.levantou,
      adicionadas |-> Cardinality(DOMAIN r.st) - Cardinality(DOMAIN store),
      validos |-> Validos(registros, validar_entrada),
      existentes |-> JaExistiam(store, registros),
      total |-> Len(registros),
      novas |-> ChavesNovas(store, registros, validar_entrada) ]

\* A caller runs salvar_varias_notas.
SalvarVariasNotas(registros, validar_entrada, tamanho_lote) ==
    LET r == salvar_varias_notas(store, registros, validar_entrada, tamanho_lote) IN
    /\ store' = r.st
    /\ ret' = RetornoSalvarVarias("salvar_varias_notas", r, registros, validar_entrada)
    /\ UNCHANGED <<inv, disk, dlVars>>

\* A caller runs salvar_varias_notas and the database rejects the executemany
\* of one lot (sqlite3.Error: locked, disk full, I/O error).
SalvarVariasNotasComFalha(registros, validar_entrada, tamanho_lote, lote_que_falha) ==
    LET r == salvar_varias_notas_bd(store, registros, validar_entrada, tamanho_lote,
                                    {lote_que_falha}) IN
    /\ registros # << >>
    /\ store' = r.st
    /\ ret' = RetornoSalvarVarias("salvar_varias_notas_bd", r, registros, validar_entrada)
    /\ UNCHANGED <<inv, disk, dlVars>>

\* A caller runs salvar_nota.
SalvarNota(registro, validar_entrada) ==
    LET r == salvar_nota(store, registro, validar_entrada) IN
    /\ store' = r.st
    /\ ret' = [ op |-> "salvar_nota",
                inseridos |-> IF r.sucesso /\ ~r.duplicata THEN 1 ELSE 0,
                duplicatas |-> IF r.duplicata THEN 1 ELSE 0,
                erros |-> IF r.sucesso THEN 0 ELSE 1,
                levantou |-> r.levantou,
                adicionadas |-> Cardinality(DOMAIN r.st) - Cardinality(DOMAIN store),
                validos |-> Validos(<<registro>>, validar_entrada),
                existentes |-> JaExistiam(store, <<registro>>),
                total |-> 1,
                novas |-> ChavesNovas(store, <<registro>>, validar_entrada) ]
    /\ UNCHANGED <<inv, disk, dlVars>>

\* A download of key k completed: the file was written and
\* atualizar_status_xml ran (extrator_async.py:238-239).
MarcarBaixado(k) ==
    /\ k \in DOMAIN store
    /\ store[k].xml_baixado = 0
    /\ disk' = [disk EXCEPT ![k] = "xml"]
    /\ store' = atualizar_status_xml(store, disk', k, k, 0)
    /\ ret' = [SemRetorno EXCEPT !.op = "atualizar_status_xml"]
    /\ UNCHANGED <<inv, dlVars>>

InitUpsert ==
    /\ inv = InitInvoke("ListarNF")
    /\ store = << >>
    /\ disk = [k \in TodasChaves |-> "ausente"]
    /\ ret = SemRetorno
    /\ run = << >>
    /\ tarefa = << >>
    /\ escritas = {}
    /\ colheita = << >>

NextUpsert ==
    \/ \E registros \in ListasDeRegistros, tamanho_lote \in 1 .. MaxLote :
            SalvarVariasNotas(registros, TRUE, tamanho_lote)
    \/ \E registro \in Registros, validar_entrada \in BOOLEAN :
            SalvarNota(registro, validar_entrada)
    \/ \E k \in TodasChaves : MarcarBaixado(k)

SpecUpsert == InitUpsert /\ [][NextUpsert]_vars

\* The same callers on a database that may reject the executemany of a lot.
NextUpsertBd ==
    \/ NextUpsert
    \/ \E registros \in ListasDeRegistros, tamanho_lote \in 1 .. MaxLote,
          lote_que_falha \in 1 .. MaxRegistros :
            SalvarVariasNotasComFalha(registros, TRUE, tamanho_lote, lote_que_falha)

SpecUpsertBd == InitUpsert /\ [][NextUpsertBd]_vars

(***************************************************************************)
(* PART 3.  One Downloader run, task by task.                              *)
(*   asyncio:  extrator_async.py baixar_xmls / baixar_xml_individual       *)
(*   threads:  baixar_parallel.py baixar_xmls_em_parallel / baixar_uma_nota*)
(* A step of an asyncio task runs from one await to the next; a step of a  *)
(* thread is one statement group, since threads are preempted anywhere.    *)
(***************************************************************************)

\* Largest calls_per_second (asyncio) / parallel_workers (threads) tried.
MaxCallsPerSecond == 2

\* Number of times a stage (download, harvest) is run, one run after the other.
MaxExecucoes == 2

\* What a 2xx dict response carries under "cXmlNfe": a document, whitespace,
\* the empty string, or no such key.
Payloads == {"xml", "branco", "vazio", "sem_cXmlNfe"}

\* How a write_text can fail: not at all, on open (file untouched), or while
\* writing (the file was truncated by open and is left empty).
Falhas == {"nenhuma", "abrir", "gravar"}

\* A semaphore one permit larger than the client's (mutant).
TamanhoSemaforoDownload_maior(valor) == valor + 1

\* extrator_async.py:346  semaphore = asyncio.Semaphore(client.semaphore._value)
TamanhoSemaforoDownload(valor) == valor

\* A pending query that selects every row (mutant).
PendentesAsync_todas(st) == DOMAIN st

\* extrator_async.py:278-323: every branch of the pending query keeps
\* xml_baixado = 0 AND nIdNF IS NOT NULL.
PendentesAsync(st) ==
    {k \in DOMAIN st : st[k].xml_baixado = 0 /\ st[k].nIdNF # NULO}

\* baixar_parallel.py:134-137: WHERE xml_baixado = 0.
PendentesParallel(st) == {k \in DOMAIN st : st[k].xml_baixado = 0}

\* utils.py:1105-1114 gerar_xml_path: TRUE when it does not raise (the date is
\* present and normalizar_data parses it; both formats are accepted).
GerarXmlPathOk(row) == row.dEmi \in {"iso", "br"}

\* baixar_parallel.py:102 datetime.strptime(data_emissao, '%d/%m/%Y').
StrptimeBrOk(row) == row.dEmi = "br"

\* extrator_async.py:236 html.unescape(data.get("cXmlNfe", "")): the text written.
ConteudoAsync(payload) == IF payload = "sem_cXmlNfe" THEN "vazio" ELSE payload

\* The store updated before the file is written (mutant of GravaEAtualiza).
GravaEAtualiza_antes(st, dk, k, conteudo, falha) ==
    LET st1 == atualizar_status_xml(st, dk, k, k, 0) IN
    CASE falha = "abrir"  -> [st |-> st1, dk |-> dk, ok |-> FALSE]
      [] falha = "gravar" -> [st |-> st1, dk |-> [dk EXCEPT ![k] = "vazio"], ok |-> FALSE]
      [] OTHER -> [st |-> st1, dk |-> [dk EXCEPT ![k] = conteudo], ok |-> TRUE]

\* extrator_async.py:238-239: caminho.write_text(xml_str) and then, only when
\* it did not raise, atualizar_status_xml(db_name, chave, caminho, xml_str,
\* rebaixado). No await separates the two: one step of the event loop.
GravaEAtualiza(st, dk, k, conteudo, falha) ==
    CASE falha = "abrir"  -> [st |-> st, dk |-> dk, ok |-> FALSE]
      [] falha = "gravar" -> [st |-> st, dk |-> [dk EXCEPT ![k] = "vazio"], ok |-> FALSE]
      [] OTHER ->
           LET dk1 == [dk EXCEPT ![k] = conteudo] IN
           [st |-> atualizar_status_xml(st, dk1, k, k, 0), dk |-> dk1, ok |-> TRUE]

\* An except branch that also marks the row (mutant).
TrataExcecaoDownload_marca(st, k) == [st EXCEPT ![k].xml_vazio = 1]

\* extrator_async.py:241-242 and baixar_parallel.py:127-128: the except branch
\* of a task logs the error and touches nothing.
TrataExcecaoDownload(st, k) == st

TarefaNova(pc0) == [pc |-> pc0, attempt |-> 1, motivo |-> "", conteudo |-> ""]
Terminou(t) == t.pc \in {"feito", "falhou"}
Falhou(t, porque) == [t EXCEPT !.pc = "falhou", !.motivo = porque]

\* extrator_async.py:245-353 baixar_xmls up to the gather: read the pending
\* rows, size the downloader semaphore, create one task per row.
IniciarAsync ==
    /\ run.fase = "inicio"
    /\ run.modo = "async"
    /\ LET rows == PendentesAsync(store) IN
       /\ tarefa' = [k \in rows |-> TarefaNova("espera_sem")]
       /\ run' = [run EXCEPT !.fase = IF rows = {} THEN "fim" ELSE "rodando",
                             !.dsem = TamanhoSemaforoDownload(run.csem)]
    /\ UNCHANGED <<colheita, inv, store, disk, ret, escritas>>

\* extrator_async.py:220-231: "async with semaphore", then gerar_xml_path,
\* mkdir and exists, synchronously. A failure is caught at line 241 and the
\* semaphore is released on the way out.
Entrar(k, mkdir_ok) ==
    /\ run.fase = "rodando"
    /\ run.modo = "async"
    /\ k \in DOMAIN tarefa
    /\ tarefa[k].pc = "espera_sem"
    /\ run.dsem > 0
    /\ (~GerarXmlPathOk(store[k]) => mkdir_ok)
    /\ IF ~GerarXmlPathOk(store[k])
       THEN /\ tarefa' = [tarefa EXCEPT ![k] = Falhou(@, "caminho")]
            /\ run' = run
       ELSE IF ~mkdir_ok
       THEN /\ tarefa' = [tarefa EXCEPT ![k] = Falhou(@, "mkdir")]
            /\ run' = run
       ELSE /\ tarefa' = [tarefa EXCEPT ![k] = [@ EXCEPT !.pc = "quer_cliente"]]
            /\ run' = [run EXCEPT !.dsem = @ - 1]
    /\ store' = IF GerarXmlPathOk(store[k]) /\ mkdir_ok
                THEN store ELSE TrataExcecaoDownload(store, k)
    /\ UNCHANGED <<colheita, inv, disk, ret, escritas>>

\* omie_client_async.py:51-52: "async with self.semaphore", then the POST is
\* in flight.
AdquireCliente(k) ==
    /\ run.fase = "rodando"
    /\ run.modo = "async"
    /\ k \in DOMAIN tarefa
    /\ tarefa[k].pc = "quer_cliente"
    /\ run.csem > 0
    /\ tarefa' = [tarefa EXCEPT ![k] = [@ EXCEPT !.pc = "post"]]
    /\ run' = [run EXCEPT !.csem = @ - 1, !.buscas = @ \cup {k}]
    /\ UNCHANGED <<colheita, inv, store, disk, ret, escritas>>

\* The POST of task k is answered by r. On a dict the client semaphore is
\* released, call_api and the wrapper return, and the task writes the file and
\* updates the store before its next await (extrator_async.py:236-240). With
\* bd_ok FALSE the UPDATE raises and atualizar_status_xml swallows the error
\* (utils.py:2139-2140): the task ends as if the row had been updated.
Resposta(k, r, payload, falha, bd_ok) ==
    /\ run.fase = "rodando"
    /\ run.modo = "async"
    /\ k \in DOMAIN tarefa
    /\ tarefa[k].pc = "post"
    /\ (~bd_ok => r = "200_dict" /\ falha = "nenhuma")
    /\ IF r = "200_dict"
       THEN LET g == GravaEAtualiza(store, disk, k, ConteudoAsync(payload), falha) IN
            /\ store' = IF ~g.ok THEN TrataExcecaoDownload(g.st, k)
                        ELSE IF bd_ok THEN g.st ELSE store
            /\ disk' = g.dk
            /\ escritas' = IF g.ok THEN escritas \cup {k} ELSE escritas
            /\ tarefa' = [tarefa EXCEPT ![k] =
                             IF g.ok THEN [@ EXCEPT !.pc = "feito"]
                                     ELSE Falhou(@, "escrita")]
            /\ run' = [run EXCEPT !.csem = @ + 1, !.dsem = @ + 1]
       ELSE /\ payload = "xml"
            /\ falha = "nenhuma"
            /\ tarefa' = [tarefa EXCEPT ![k] =
                             [@ EXCEPT !.pc = IF DormeNoSemaforo(r)
                                              THEN "dorme_dentro" ELSE "dorme_fora"]]
            /\ run' = IF DormeNoSemaforo(r) THEN run
                      ELSE [run EXCEPT !.csem = @ + 1]
            /\ UNCHANGED <<store, disk, escritas>>
    /\ UNCHANGED <<colheita, inv, ret>>

\* A sleeper that keeps its permit of the client semaphore (mutant).
SoltaAoAcordar_nada(pc) == 0

\* omie_client_async.py:51-65: the sleeps of the 429 and 5xx branches are
\* followed by "continue" (or by the end of the block), which leaves
\* "async with self.semaphore": the permit is released when the sleep ends.
\* A task that slept in an except branch left the block before it slept.
SoltaAoAcordar(pc) == IF pc = "dorme_dentro" THEN 1 ELSE 0

\* The backoff sleep of task k ends (omie_client_async.py:58-87). After the
\* last attempt call_api raises RuntimeError, the wrapper re-raises it
\* (WrapperTrata) and the task's except logs it (extrator_async.py:241).
Acordar(k) ==
    /\ run.fase = "rodando"
    /\ run.modo = "async"
    /\ k \in DOMAIN tarefa
    /\ tarefa[k].pc \in {"dorme_dentro", "dorme_fora"}
    /\ LET solta == SoltaAoAcordar(tarefa[k].pc) IN
       IF UltimaTentativa(tarefa[k].attempt)
             /\ WrapperTrata(FalhaPermanente("ObterNfe")) = "propaga"
       THEN /\ tarefa' = [tarefa EXCEPT ![k] = Falhou(@, "fetch")]
            /\ run' = [run EXCEPT !.csem = @ + solta, !.dsem = @ + 1]
            /\ store' = TrataExcecaoDownload(store, k)
       ELSE /\ tarefa' = [tarefa EXCEPT ![k] =
                             [@ EXCEPT !.pc = "quer_cliente",
                                       !.attempt = IF UltimaTentativa(@) THEN 1 ELSE @ + 1]]
            /\ run' = [run EXCEPT !.csem = @ + solta]
            /\ store' = store
    /\ UNCHANGED <<colheita, inv, disk, ret, escritas>>

\* baixar_parallel.py:133-142: read the pending rows and submit one future per
\* row to a pool of MAX_WORKERS threads.
IniciarParallel ==
    /\ run.fase = "inicio"
    /\ run.modo = "threads"
    /\ LET rows == PendentesParallel(store) IN
       /\ tarefa' = [k \in rows |-> TarefaNova("fila")]
       /\ run' = [run EXCEPT !.fase = IF rows = {} THEN "fim" ELSE "rodando"]
    /\ UNCHANGED <<colheita, inv, store, disk, ret, escritas>>

\* A free worker takes the future of row k and runs baixar_parallel.py:100-108:
\* strptime of the stored date, mkdir, exists.
Prepara(k, mkdir_ok) ==
    /\ run.fase = "rodando"
    /\ run.modo = "threads"
    /\ k \in DOMAIN tarefa
    /\ tarefa[k].pc = "fila"
    /\ run.livres > 0
    /\ (~StrptimeBrOk(store[k]) => mkdir_ok)
    /\ IF ~StrptimeBrOk(store[k])
       THEN /\ tarefa' = [tarefa EXCEPT ![k] = Falhou(@, "caminho")]
            /\ run' = run
       ELSE IF ~mkdir_ok
       THEN /\ tarefa' = [tarefa EXCEPT ![k] = Falhou(@, "mkdir")]
            /\ run' = run
       ELSE /\ tarefa' = [tarefa EXCEPT ![k] = [@ EXCEPT !.pc = "post"]]
            /\ run' = [run EXCEPT !.livres = @ - 1, !.buscas = @ \cup {k}]
    /\ store' = IF StrptimeBrOk(store[k]) /\ mkdir_ok
                THEN store ELSE TrataExcecaoDownload(store, k)
    /\ UNCHANGED <<colheita, inv, disk, ret, escritas>>

\* baixar_parallel.py:117-121: requests.post, raise_for_status, json and
\* data['cXmlNfe'] (KeyError without the key). Nothing is retried.
RespostaParallel(k, r, payload) ==
    /\ run.fase = "rodando"
    /\ run.modo = "threads"
    /\ k \in DOMAIN tarefa
    /\ tarefa[k].pc = "post"
    /\ (r # "200_dict" => payload = "xml")
    /\ IF r = "200_dict" /\ payload # "sem_cXmlNfe"
       THEN /\ tarefa' = [tarefa EXCEPT ![k] =
                             [@ EXCEPT !.pc = "escrever", !.conteudo = payload]]
            /\ run' = run
       ELSE /\ tarefa' = [tarefa EXCEPT ![k] = Falhou(@, "fetch")]
            /\ run' = [run EXCEPT !.livres = @ + 1]
    /\ store' = IF r = "200_dict" /\ payload # "sem_cXmlNfe"
                THEN store ELSE TrataExcecaoDownload(store, k)
    /\ UNCHANGED <<colheita, inv, disk, ret, escritas>>

\* baixar_parallel.py:122 caminho.write_text(xml_str).
Escreve(k, falha) ==
    /\ run.fase = "rodando"
    /\ run.modo = "threads"
    /\ k \in DOMAIN tarefa
    /\ tarefa[k].pc = "escrever"
    /\ CASE falha = "nenhuma" ->
              /\ disk' = [disk EXCEPT ![k] = tarefa[k].conteudo]
              /\ escritas' = escritas \cup {k}
              /\ tarefa' = [tarefa EXCEPT ![k] = [@ EXCEPT !.pc = "atualizar"]]
              /\ run' = run
         [] falha = "abrir" ->
              /\ UNCHANGED <<disk, escritas>>
              /\ tarefa' = [tarefa EXCEPT ![k] = Falhou(@, "escrita")]
              /\ run' = [run EXCEPT !.livres = @ + 1]
         [] OTHER ->
              /\ disk' = [disk EXCEPT ![k] = "vazio"]
              /\ UNCHANGED escritas
              /\ tarefa' = [tarefa EXCEPT ![k] = Falhou(@, "escrita")]
              /\ run' = [run EXCEPT !.livres = @ + 1]
    /\ store' = IF falha = "nenhuma" THEN store ELSE TrataExcecaoDownload(store, k)
    /\ UNCHANGED <<colheita, inv, ret>>

\* baixar_parallel.py:124 atualizar_status_xml(DB_NAME, chave, caminho, ...);
\* with bd_ok FALSE its UPDATE raises and the error is swallowed.
Atualiza(k, bd_ok) ==
    /\ run.fase = "rodando"
    /\ run.modo = "threads"
    /\ k \in DOMAIN tarefa
    /\ tarefa[k].pc = "atualizar"
    /\ store' = IF bd_ok THEN atualizar_status_xml(store, disk, k, k, 0) ELSE store
    /\ tarefa' = [tarefa EXCEPT ![k] = [@ EXCEPT !.pc = "feito"]]
    /\ run' = [run EXCEPT !.livres = @ + 1]
    /\ UNCHANGED <<colheita, inv, disk, ret, escritas>>

\* A wait that ends as soon as one task has failed (mutant).
GatherRetorna_na_falha(ts) ==
    \/ \A k \in DOMAIN ts : Terminou(ts[k])
    \/ \E k \in DOMAIN ts : ts[k].pc = "falhou"

\* extrator_async.py:348-353 await asyncio.gather(...) and
\* baixar_parallel.py:141-144 as_completed / future.result(): no task lets an
\* exception out, so the wait ends when every task has ended.
GatherRetorna(ts) == \A k \in DOMAIN ts : Terminou(ts[k])

\* asyncio.gather returned (extrator_async.py:348-354) / the executor's with
\* block was left (baixar_parallel.py:141-146).
Concluir ==
    /\ run.fase = "rodando"
    /\ GatherRetorna(tarefa)
    /\ run' = [run EXCEPT !.fase = "fim"]
    /\ UNCHANGED <<colheita, inv, store, disk, ret, tarefa, escritas>>

\* A row as the upsert leaves it: pending, no path. dEmi is "iso" when the row
\* came through transformar_em_tuple, "nulo" when normalizar_data rejected the
\* date, "br" when the row was inserted by src/utils.py salvar_nota, which
\* stores the API's dd/mm/yyyy date as it is.
LinhaPendente(k, d) ==
    [ cChaveNFe |-> k, nIdNF |-> 1, dEmi |-> d, xml_baixado |-> 0,
      caminho_arquivo |-> NULO, xml_vazio |-> 0 ]

\* What a run remembers of the run before it; no step of a task reads it.
SemAnterior ==
    [ completa |-> FALSE, interrompida |-> FALSE, pendentes |-> {},
      escritas |-> {} ]

\* The run record at the start of a process with n permits / workers.
RunNova(modo, n, execucao, anterior) ==
    [ modo |-> modo, fase |-> "inicio", calls_per_second |-> n,
      csem |-> n, dsem |-> 0, livres |-> n, execucao |-> execucao,
      buscas |-> {}, anterior |-> anterior ]

\* The run starts on a store of pending rows; files may already lie on disk
\* (left by an interrupted run or placed by hand).
InitDownload ==
    /\ inv = InitInvoke("ObterNfe")
    /\ ret = SemRetorno
    /\ \E datas \in [Chaves -> {"iso", "br", "nulo"}], semId \in {{}, {NumChaves}} :
          store = [k \in Chaves |->
                     [LinhaPendente(k, datas[k]) EXCEPT
                         !.nIdNF = IF k \in semId THEN NULO ELSE 1]]
    /\ disk \in [TodasChaves -> {"ausente", "xml"}]
    /\ disk[ChaveCurta] = "ausente"
    /\ \E modo \in {"async", "threads"}, n \in 1 .. MaxCallsPerSecond :
          run = RunNova(modo, n, 1, SemAnterior)
    /\ tarefa = << >>
    /\ escritas = {}
    /\ colheita = << >>

NextDownload ==
    \/ IniciarAsync
    \/ \E k \in Chaves, mkdir_ok \in BOOLEAN : Entrar(k, mkdir_ok)
    \/ \E k \in Chaves : AdquireCliente(k)
    \/ \E k \in Chaves, r \in Respostas, payload \in Payloads, falha \in Falhas,
          bd_ok \in BOOLEAN :
          Resposta(k, r, payload, falha, bd_ok)
    \/ \E k \in Chaves : Acordar(k)
    \/ IniciarParallel
    \/ \E k \in Chaves, mkdir_ok \in BOOLEAN : Prepara(k, mkdir_ok)
    \/ \E k \in Chaves, r \in Respostas, payload \in Payloads :
          RespostaParallel(k, r, payload)
    \/ \E k \in Chaves, falha \in Falhas : Escreve(k, falha)
    \/ \E k \in Chaves, bd_ok \in BOOLEAN : Atualiza(k, bd_ok)
    \/ Concluir

SpecDownload == InitDownload /\ [][NextDownload]_vars

\* Every request is answered or times out (ClientTimeout(total=60),
\* requests timeout=TIMEOUT), every sleep ends, and the event loop / the pool
\* runs whatever is ready: a step that can be taken is taken.
SpecDownloadFair == SpecDownload /\ WF_vars(NextDownload)

\* The process is killed while a run is going on: its tasks are gone; the
\* store and the disk stay as they are.
Interromper ==
    /\ run.fase = "rodando"
    /\ run' = [run EXCEPT !.fase = "interrompida"]
    /\ tarefa' = [k \in DOMAIN tarefa |-> TarefaNova("morta")]
    /\ UNCHANGED <<colheita, inv, store, disk, ret, escritas>>

\* The Downloader is run again, on the store and the disk the run before left.
NovaExecucao ==
    /\ run.fase \in {"fim", "interrompida"}
    /\ run.execucao < MaxExecucoes
    /\ run' = RunNova(run.modo, run.calls_per_second, run.execucao + 1,
                 [ completa |-> /\ run.fase = "fim"
                                /\ \A k \in DOMAIN tarefa :
                                      /\ tarefa[k].pc = "feito"
                                      /\ store[k].xml_baixado = 1,
                   interrompida |-> run.fase = "interrompida",
                   pendentes |-> DOMAIN tarefa,
                   escritas |-> escritas ])
    /\ tarefa' = << >>
    /\ escritas' = {}
    /\ UNCHANGED <<colheita, inv, store, disk, ret>>

\* Runs one after the other: every row has a date both downloaders accept and
\* an nIdNF, and no file is on disk before the first run.
InitResume ==
    /\ inv = InitInvoke("ObterNfe")
    /\ ret = SemRetorno
    /\ store = [k \in Chaves |-> LinhaPendente(k, "br")]
    /\ disk = [k \in TodasChaves |-> "ausente"]
    /\ \E modo \in {"async", "threads"}, n \in 1 .. MaxCallsPerSecond :
          run = RunNova(modo, n, 1, SemAnterior)
    /\ tarefa = << >>
    /\ escritas = {}
    /\ colheita = << >>

NextResume ==
    \/ NextDownload
    \/ Interromper
    \/ NovaExecucao

SpecResume == InitResume /\ [][NextResume]_vars

(***************************************************************************)
(* PART 4.  The stages that write the store, one whole stage per step:     *)
(* the Harvester's upsert, a download of one pending row, and the two      *)
(* Reconcilers (verificador_xmls.verificar, atualizar_caminhos_no_banco).  *)
(* main.py runs the stages one after another, so a stage is atomic here.   *)
(***************************************************************************)

\* Contents a file on disk can have.
Conteudos == {"ausente", "vazio", "branco", "xml"}

\* verificador_xmls.py:44-75 verificar_arquivo_no_disco: TRUE when the key is
\* returned: no field missing, the path builds, the file exists with size > 0.
verificar_arquivo_no_disco(row, dk) ==
    /\ row.dEmi # "nulo"
    /\ GerarXmlPathOk(row)
    /\ dk[row.cChaveNFe] \notin {"ausente", "vazio"}

\* verificador_xmls.py:81-129 verificar_arquivos_existentes: the keys of the
\* rows with xml_baixado = 0 whose file is on disk.
verificar_arquivos_existentes(st, dk) ==
    {k \in DOMAIN st : st[k].xml_baixado = 0 /\ verificar_arquivo_no_disco(st[k], dk)}

\* verificador_xmls.py:136-173 atualizar_status_no_banco:
\* UPDATE notas SET xml_baixado = 1 WHERE cChaveNFe = ?  for each key.
atualizar_status_no_banco(st, chaves) ==
    [k \in DOMAIN st |->
        IF k \in chaves THEN [st[k] EXCEPT !.xml_baixado = 1] ELSE st[k]]

\* atualizar_caminhos_arquivos.py:324-360 extrair_chave_do_nome: TRUE when a
\* key is read from the file name (the third part must be 44 digits).
extrair_chave_do_nome(k) == k # ChaveCurta

\* atualizar_caminhos_arquivos.py:180-206 _verificar_arquivo_vazio.
VerificarArquivoVazio(conteudo) == IF conteudo = "xml" THEN 0 ELSE 1

\* atualizar_caminhos_arquivos.py:104-127: chave -> arquivo for every *.xml
\* file found under the result directory.
mapeamento_chaves(dk) ==
    {k \in DOMAIN dk : dk[k] # "ausente" /\ extrair_chave_do_nome(k)}

\* A mapping that takes xml_baixado from the file's content (mutant of
\* AtualizarBancoOtimizado).
AtualizarBancoOtimizado_por_conteudo(st, dk, mapa) ==
    [k \in DOMAIN st |->
        IF k \in mapa
        THEN [st[k] EXCEPT !.caminho_arquivo = k,
                           !.xml_baixado = 1 - VerificarArquivoVazio(dk[k]),
                           !.xml_vazio = VerificarArquivoVazio(dk[k])]
        ELSE st[k]]

\* atualizar_caminhos_arquivos.py:209-262 _atualizar_banco_otimizado:
\* UPDATE notas SET caminho_arquivo = ?, xml_baixado = ?, xml_vazio = ?
\* WHERE cChaveNFe = ?  for every mapped key.
AtualizarBancoOtimizado(st, dk, mapa) ==
    [k \in DOMAIN st |->
        IF k \in mapa
        THEN [st[k] EXCEPT !.caminho_arquivo = k, !.xml_baixado = 1,
                           !.xml_vazio = VerificarArquivoVazio(dk[k])]
        ELSE st[k]]

Etapa(nome) == [SemRetorno EXCEPT !.op = nome]

\* Harvester: listar_nfs saves one page (extrator_async.py:165).
Colher(registros, tamanho_lote) ==
    /\ store' = salvar_varias_notas(store, registros, TRUE, tamanho_lote).st
    /\ ret' = [Etapa("listar_nfs") EXCEPT !.existentes = JaExistiam(store, registros)]
    /\ UNCHANGED <<inv, disk, dlVars>>

\* Downloader: the task of one pending row gets its document and runs
\* extrator_async.py:236-239. With bd_ok FALSE the UPDATE raises and
\* atualizar_status_xml swallows the error (utils.py:2139-2140).
Baixar(k, payload, falha, bd_ok) ==
    /\ k \in PendentesAsync(store)
    /\ GerarXmlPathOk(store[k])
    /\ LET g == GravaEAtualiza(store, disk, k, ConteudoAsync(payload), falha) IN
       /\ disk' = g.dk
       /\ store' = IF bd_ok THEN g.st ELSE store
    /\ ret' = Etapa("baixar_xmls")
    /\ UNCHANGED <<inv, dlVars>>

\* Reconciler: verificador_xmls.py:284-307 verificar.
Verificar ==
    /\ store' = atualizar_status_no_banco(store,
                    verificar_arquivos_existentes(store, disk))
    /\ ret' = Etapa("verificar")
    /\ UNCHANGED <<inv, disk, dlVars>>

\* Reconciler: atualizar_caminhos_arquivos.py:42-154 atualizar_caminhos_no_banco
\* (returns at line 98 when no file is found).
AtualizarCaminhos ==
    /\ store' = AtualizarBancoOtimizado(store, disk, mapeamento_chaves(disk))
    /\ ret' = Etapa("atualizar_caminhos_no_banco")
    /\ UNCHANGED <<inv, disk, dlVars>>

\* Empty store; the result directory may hold documents of an earlier run or
\* placed by hand.
InitPipeline ==
    /\ inv = InitInvoke("ListarNF")
    /\ store = << >>
    /\ disk \in [TodasChaves -> {"ausente", "xml"}]
    /\ ret = SemRetorno
    /\ run = << >>
    /\ tarefa = << >>
    /\ escritas = {}
    /\ colheita = << >>

NextPipeline ==
    \/ \E registros \in ListasDeRegistros, tamanho_lote \in 1 .. MaxLote :
          Colher(registros, tamanho_lote)
    \/ \E k \in TodasChaves, payload \in Payloads, falha \in Falhas, bd_ok \in BOOLEAN :
          Baixar(k, payload, falha, bd_ok)
    \/ Verificar
    \/ AtualizarCaminhos

SpecPipeline == InitPipeline /\ [][NextPipeline]_vars

(***************************************************************************)
(* Claims about the store across stages (checked under SpecPipeline).      *)
(***************************************************************************)

\* C2: in every reachable state of the store, every row with xml_baixado = 1
\* has a non-null caminho_arquivo.
Cex_C2 ==
    \A k \in DOMAIN store :
        store[k].xml_baixado = 1 => store[k].caminho_arquivo # NULO

\* C25 (the claim as stated): a Reconciler run moves a row from xml_baixado = 0
\* to xml_baixado = 1 only when the file of its key is on disk and is not
\* zero-length.
Cex_C25 ==
    [][ret'.op \in {"verificar", "atualizar_caminhos_no_banco"} =>
          \A k \in DOMAIN store :
              (store[k].xml_baixado = 0 /\ store'[k].xml_baixado = 1)
                => disk[k] \notin {"ausente", "vazio"}]_vars

\* C31 (the claim as stated): a Reconciler run leaves xml_baixado,
\* caminho_arquivo and xml_vazio of every row that was already downloaded as
\* they were, and leaves every row whose key has no file on disk unchanged.
Cex_C31 ==
    [][ret'.op \in {"verificar", "atualizar_caminhos_no_banco"} =>
          \A k \in DOMAIN store :
              /\ store[k].xml_baixado = 1 =>
                    /\ store'[k].xml_baixado = store[k].xml_baixado
                    /\ store'[k].caminho_arquivo = store[k].caminho_arquivo
                    /\ store'[k].xml_vazio = store[k].xml_vazio
              /\ disk[k] = "ausente" => store'[k] = store[k]]_vars

MaxPaginas == 2

\* utils.py:3278 tamanho_lote: int = 200, the value listar_nfs runs with.
tamanho_lote_padrao == 200

\* One item of "nfCadastro": the record its fields give, and whether the
\* nested sections compl, ide, nfDestInt and total.ICMSTot are all there.
Item(chave, dEmi, secoes) ==
    [ reg |-> [chave |-> chave, nIdNF |-> 1, dEmi |-> dEmi, nNF |-> "ok"],
      secoes |-> secoes ]

\* The pages a server can hold: empty, well-formed items, and items with a
\* null key, a key that is not 44 characters, a date no format parses, a
\* missing section.
PaginasPossiveis ==
    { << >>,
      <<Item(1, "br", TRUE)>>,
      <<Item(1, "br", TRUE), Item(2, "br", TRUE)>>,
      <<Item(2, "br", TRUE), Item(ChaveAusente, "br", TRUE)>>,
      <<Item(2, "ruim", TRUE)>>,
      <<Item(1, "br", FALSE), Item(2, "br", TRUE)>>,
      <<Item(ChaveCurta, "br", TRUE), Item(1, "br", TRUE)>> }

\* The server: total_de_paginas and the items of each page.
Servidores ==
    UNION { [total : {t}, paginas : [1 .. t -> PaginasPossiveis]] :
               t \in 1 .. MaxPaginas }

\* data.get("nfCadastro", []) of the response to page p.
PaginaDoServidor(srv, p) ==
    IF p \in 1 .. srv.total THEN srv.paginas[p] ELSE << >>

\* extrator_async.py:65-89 normalizar_nota and line 164: the records of the
\* items whose sections are all there ({} is dropped by the comprehension).
RECURSIVE NormalizarNotas(_)
NormalizarNotas(notas) ==
    IF notas = << >> THEN << >>
    ELSE (IF Head(notas).secoes THEN <<Head(notas).reg>> ELSE << >>)
            \o NormalizarNotas(Tail(notas))

\* The loop goes on after the last page (mutant).
UltimaPagina_depois(pagina, total_paginas) == pagina > total_paginas

\* extrator_async.py:185 if pagina >= total_paginas: break
UltimaPagina(pagina, total_paginas) == pagina >= total_paginas

\* The except branch goes on with the loop (mutant).
ErroDePaginaEncerra_nao == FALSE

\* extrator_async.py:189-191: except Exception: logger.exception(...); break
ErroDePaginaEncerra == TRUE

\* extrator_async.py:193 and the end of listar_nfs: whether the loop was left
\* by a break of the try body or by the break of the except branch, the
\* function logs and falls off its end: the caller gets None.
RetornoListarNfs(abortada) == "None"

ColheitaNova(srv, execucao) ==
    [ servidor |-> srv, execucao |-> execucao, fase |-> "paginando",
      pagina |-> 1, pedidos |-> << >>, em_voo |-> 0,
      abortada |-> FALSE, erro |-> "", retorno |-> "",
      main |-> "listar_nfs", anterior_abortada |-> FALSE,
      store_inicio |-> store, store_exec |-> store ]

\* extrator_async.py:146-160: the payload of page "pagina" is built and
\* call_api_com_retentativa is awaited.
Pedir ==
    /\ colheita.fase = "paginando"
    /\ colheita' = [colheita EXCEPT !.fase = "aguardando",
                                    !.pedidos = Append(@, colheita.pagina),
                                    !.em_voo = @ + 1]
    /\ UNCHANGED <<inv, store, disk, ret, run, tarefa, escritas>>

\* Leaving the loop: listar_nfs returns to main.
Encerrar(c, abortou, erro) ==
    [c EXCEPT !.fase = "retornou", !.em_voo = 0,
              !.abortada = abortou, !.erro = erro,
              !.retorno = RetornoListarNfs(abortou)]

\* extrator_async.py:160-191: the awaited call ends and the page is processed.
\* falha "chamada": call_api_com_retentativa raised. falha "bd": the store
\* cannot be opened or committed, salvar_varias_notas raises DatabaseError
\* (utils.py:3394-3396) and nothing of the page is saved. The fields abortada,
\* erro, anterior_abortada, store_inicio and store_exec only record what
\* happened; no step reads them.
Responder(falha) ==
    /\ colheita.fase = "aguardando"
    /\ LET notas == PaginaDoServidor(colheita.servidor, colheita.pagina)
           r == salvar_varias_notas(store, NormalizarNotas(notas), TRUE,
                                    tamanho_lote_padrao)
           levantou == \/ falha = "chamada"
                       \/ (notas # << >> /\ NormalizarNotas(notas) # << >>
                              /\ falha = "bd")
                       \/ (notas # << >> /\ r.levantou)
       IN
       /\ (falha = "bd" => notas # << >> /\ NormalizarNotas(notas) # << >>)
       /\ IF levantou
          THEN /\ store' = store
               /\ colheita' =
                    IF ErroDePaginaEncerra
                    THEN Encerrar(colheita, TRUE,
                                  IF falha = "nenhuma" THEN "processamento" ELSE falha)
                    ELSE [colheita EXCEPT !.fase = "paginando", !.em_voo = 0,
                                          !.abortada = TRUE]
          ELSE IF notas = << >>
          THEN /\ store' = store
               /\ colheita' = Encerrar(colheita, colheita.abortada, colheita.erro)
          ELSE /\ store' = r.st
               /\ colheita' =
                    IF UltimaPagina(colheita.pagina, colheita.servidor.total)
                    THEN Encerrar(colheita, colheita.abortada, colheita.erro)
                    ELSE [colheita EXCEPT !.fase = "paginando", !.em_voo = 0,
                                          !.pagina = @ + 1]
    /\ UNCHANGED <<inv, disk, ret, run, tarefa, escritas>>

\* extrator_async.py:407-408: listar_nfs returned, main awaits baixar_xmls.
MainSegue ==
    /\ colheita.fase = "retornou"
    /\ colheita.main = "listar_nfs"
    /\ colheita' = [colheita EXCEPT !.main = "baixar_xmls"]
    /\ UNCHANGED <<inv, store, disk, ret, run, tarefa, escritas>>

\* The pipeline is started again on the same store and the same server.
NovaColheita ==
    /\ colheita.fase = "retornou"
    /\ colheita.main = "baixar_xmls"
    /\ colheita.execucao < MaxExecucoes
    /\ colheita' = [ColheitaNova(colheita.servidor, colheita.execucao + 1)
                       EXCEPT !.store_inicio = colheita.store_inicio,
                              !.anterior_abortada =
                                  colheita.abortada \/ colheita.anterior_abortada]
    /\ UNCHANGED <<inv, store, disk, ret, run, tarefa, escritas>>

InitHarvest ==
    /\ inv = InitInvoke("ListarNF")
    /\ store = << >>
    /\ disk = [k \in TodasChaves |-> "ausente"]
    /\ ret = SemRetorno
    /\ run = << >>
    /\ tarefa = << >>
    /\ escritas = {}
    /\ \E srv \in Servidores : colheita = ColheitaNova(srv, 1)

NextHarvest ==
    \/ Pedir
    \/ \E falha \in {"nenhuma", "chamada", "bd"} : Responder(falha)
    \/ MainSegue
    \/ NovaColheita

\* The event loop runs a task that is ready: a step that can be taken is taken.
SpecHarvest == InitHarvest /\ [][NextHarvest]_vars /\ WF_vars(NextHarvest)

(***************************************************************************)
(* Claims about the Harvester (checked under SpecHarvest).                 *)
(***************************************************************************)

\* Page p ends the harvest: it has no items, or p >= total_de_paginas.
ParaAqui(p) ==
    \/ PaginaDoServidor(colheita.servidor, p) = << >>
    \/ p >= colheita.servidor.total

C11Seguro ==
    /\ colheita.pedidos = [i \in 1 .. Len(colheita.pedidos) |-> i]
    /\ colheita.em_voo <= 1
    /\ (colheita.fase = "retornou" /\ ~colheita.abortada) =>
          /\ Len(colheita.pedidos) >= 1
          /\ ParaAqui(Len(colheita.pedidos))
          /\ \A p \in 1 .. (Len(colheita.pedidos) - 1) : ~ParaAqui(p)

\* C11: listar_nfs requests pages 1, 2, 3, ... in increasing order, one request
\* in flight at a time, none skipped or repeated; a run that is not aborted
\* stops at the first page that is empty or has page >= total_de_paginas; and
\* with a finite total_de_paginas every run returns.
Thm_C11 == []C11Seguro /\ []<>(colheita.fase = "retornou")

\* C11 witness: a harvest returned normally after requesting pages 1 and 2.
Wit_C11 ==
    /\ colheita.fase = "retornou"
    /\ ~colheita.abortada
    /\ colheita.pedidos = <<1, 2>>
    /\ Cardinality(DOMAIN store) = 2

\* The store after pages 1..n are saved one after the other, starting from st.
RECURSIVE PaginasSalvas(_, _, _)
PaginasSalvas(st, srv, n) ==
    IF n = 0 THEN st
    ELSE salvar_varias_notas(PaginasSalvas(st, srv, n - 1),
                             NormalizarNotas(PaginaDoServidor(srv, n)),
                             TRUE, tamanho_lote_padrao).st

\* The last page an uninterrupted harvest of srv requests.
PrimeiraParada(srv) ==
    CHOOSE p \in 1 .. srv.total :
        /\ (PaginaDoServidor(srv, p) = << >> \/ p >= srv.total)
        /\ \A q \in 1 .. (p - 1) : PaginaDoServidor(srv, q) # << >>

\* C12: when the call or the processing of page p fails, no page after p is
\* requested in that run and the rows of pages 1..p-1 stay committed; a later
\* run from page 1 that completes leaves the store an uninterrupted run leaves.
Thm_C12 ==
    /\ (colheita.fase = "retornou" /\ colheita.abortada) =>
          /\ colheita.pedidos = [i \in 1 .. colheita.pagina |-> i]
          /\ store = PaginasSalvas(colheita.store_exec, colheita.servidor,
                                   colheita.pagina - 1)
    /\ (colheita.fase = "retornou" /\ ~colheita.abortada
            /\ colheita.anterior_abortada) =>
          store = PaginasSalvas(colheita.store_inicio, colheita.servidor,
                                PrimeiraParada(colheita.servidor))

\* C12 witness: a run was aborted on page 2 after page 1 was saved, and the
\* next run has completed both pages.
Wit_C12 ==
    /\ colheita.execucao = 2
    /\ colheita.anterior_abortada
    /\ colheita.store_exec # << >>
    /\ colheita.fase = "retornou"
    /\ ~colheita.abortada
    /\ colheita.pedidos = <<1, 2>>
    /\ store # colheita.store_exec

\* C13 (the claim as stated): a harvest aborted by a page error ends in an
\* outcome its caller can tell from a completed harvest.
Cex_C13 ==
    (colheita.fase = "retornou" /\ colheita.abortada) =>
        colheita.retorno # RetornoListarNfs(FALSE)

\* C14 (the claim as stated): a storage error raised while a page is upserted
\* is fatal for the run: main does not go on to the download phase.
Cex_C14 ==
    colheita.erro = "bd" => colheita.main # "baixar_xmls"

\* An item whose mandatory fields are all there and valid.
ItemValido(it) ==
    /\ it.secoes
    /\ it.reg.chave \in Chaves
    /\ it.reg.dEmi \in {"br", "iso"}
    /\ it.reg.nNF = "ok"

\* The pages of the current run whose processing is over.
PaginasProcessadas ==
    IF colheita.fase = "retornou" /\ colheita.erro = ""
    THEN 1 .. colheita.pagina
    ELSE 1 .. (colheita.pagina - 1)

\* C15 (the claim as stated): an item with a missing or invalid mandatory
\* field is never inserted, every valid item of the same page is upserted, and
\* such an item does not stop the paging.
Cex_C15 ==
    /\ \A k \in DOMAIN store : k \in Chaves /\ store[k].dEmi # "nulo"
    /\ colheita.erro # "processamento"
    /\ \A p \in PaginasProcessadas :
          \A i \in DOMAIN PaginaDoServidor(colheita.servidor, p) :
              LET it == PaginaDoServidor(colheita.servidor, p)[i] IN
              ItemValido(it) => it.reg.chave \in DOMAIN store

(***************************************************************************)
(* Claims about the Downloader (checked under SpecDownload).               *)
(***************************************************************************)

\* C1: in both downloaders, a row is marked xml_baixado = 1 only after the
\* write of that record's file has completed in this run; no interleaving of
\* tasks reaches a state where a row is downloaded and its file was not yet
\* written.
Thm_C1 ==
    \A k \in DOMAIN store : store[k].xml_baixado = 1 => k \in escritas

\* C1 witness: an asyncio run has marked a row whose file it has just written
\* while another task of the same run is still in flight.
Wit_C1 ==
    /\ run.modo = "async"
    /\ \E k \in DOMAIN tarefa :
          /\ store[k].xml_baixado = 1
          /\ k \in escritas
          /\ disk[k] # "ausente"
          /\ \E j \in DOMAIN tarefa : j # k /\ tarefa[j].pc = "post"

\* C3: a task that ended in failure (fetch failed permanently, mkdir failed,
\* or the write raised after a successful fetch) leaves its row as it was:
\* xml_baixado = 0, caminho_arquivo and xml_vazio unchanged, still selected by
\* the pending query of the downloader that ran.
Thm_C3 ==
    \A k \in DOMAIN tarefa :
        tarefa[k].pc = "falhou" =>
            /\ store[k] = [LinhaPendente(k, store[k].dEmi) EXCEPT
                               !.nIdNF = store[k].nIdNF]
            /\ (run.modo = "async" => k \in PendentesAsync(store))
            /\ (run.modo = "threads" => k \in PendentesParallel(store))

\* C3 witness: in one run a task failed after the write raised and another
\* after the fetch failed permanently, and both rows are still pending.
Wit_C3 ==
    /\ run.modo = "async"
    /\ \E k, j \in DOMAIN tarefa :
          /\ tarefa[k].pc = "falhou" /\ tarefa[k].motivo = "escrita"
          /\ tarefa[j].pc = "falhou" /\ tarefa[j].motivo = "fetch"
          /\ store[k].xml_baixado = 0
          /\ store[j].xml_baixado = 0

\* Tasks of the asyncio run whose POST is in flight.
EmVoo == {k \in DOMAIN tarefa : tarefa[k].pc = "post"}

\* Tasks of the asyncio run inside the downloader semaphore.
NoSemaforo ==
    {k \in DOMAIN tarefa :
        tarefa[k].pc \in {"quer_cliente", "post", "dorme_dentro", "dorme_fora"}}

\* C6: at every moment of an asyncio Downloader run the number of HTTP calls in
\* flight is at most calls_per_second, and so is the number of tasks inside the
\* downloader semaphore.
Thm_C6 ==
    run.modo = "async" =>
        /\ Cardinality(EmVoo) <= run.calls_per_second
        /\ Cardinality(NoSemaforo) <= run.calls_per_second

\* C6 witness: the limit binds: as many calls in flight as calls_per_second
\* while a further task waits outside the downloader semaphore.
Wit_C6 ==
    /\ run.modo = "async"
    /\ Cardinality(EmVoo) = run.calls_per_second
    /\ \E k \in DOMAIN tarefa : tarefa[k].pc = "espera_sem"

\* C16: the failure of one record's task never cancels or prevents a sibling
\* task: the run returns, and when it does every task of the run has ended.
Thm_C16 ==
    /\ [](run.fase = "fim" => \A k \in DOMAIN tarefa : Terminou(tarefa[k]))
    /\ <>(run.fase = "fim")

\* C16 witness: the run returned with one task failed and a sibling that went
\* on to download its record.
Wit_C16 ==
    /\ run.fase = "fim"
    /\ \E k, j \in DOMAIN tarefa :
          /\ tarefa[k].pc = "falhou"
          /\ tarefa[j].pc = "feito"
          /\ store[j].xml_baixado = 1

\* C19 (the claim as stated): after a successful download the row has
\* xml_vazio = 1 exactly when the written content is zero-length or
\* whitespace-only.
Cex_C19 ==
    \A k \in escritas :
        store[k].xml_baixado = 1 =>
            (store[k].xml_vazio = 1 <=> disk[k] \in {"vazio", "branco"})

\* C20 (the claim as stated): the rows a run reads as pending are all the rows
\* with xml_baixado = 0; none (for example one with a null nIdNF) is left out.
Cex_C20 ==
    run.fase # "inicio" =>
        \A k \in DOMAIN store : store[k].xml_baixado = 0 => k \in DOMAIN tarefa

\* Tasks of the run that ended in the except branch / that ran to their end.
TarefasFalhas == {k \in DOMAIN tarefa : tarefa[k].pc = "falhou"}
TarefasFeitas == {k \in DOMAIN tarefa : tarefa[k].pc = "feito"}

\* C27 (the claim as stated): after a run over P pending records in which F
\* tasks failed and the other P - F succeeded, exactly F of those records have
\* xml_baixado = 0 and exactly P - F have xml_baixado = 1.
Cex_C27 ==
    run.fase = "fim" =>
        /\ Cardinality({k \in DOMAIN tarefa : store[k].xml_baixado = 0})
              = Cardinality(TarefasFalhas)
        /\ Cardinality({k \in DOMAIN tarefa : store[k].xml_baixado = 1})
              = Cardinality(TarefasFeitas)

\* C30 (the claim as stated): with the thread pool, a record stored with an
\* ISO emission date whose task met no failing fetch, file write or mkdir is
\* marked downloaded when the run ends.
Cex_C30 ==
    (run.modo = "threads" /\ run.fase = "fim") =>
        \A k \in DOMAIN tarefa :
            (store[k].dEmi = "iso"
                /\ tarefa[k].motivo \notin {"fetch", "escrita", "mkdir"})
              => store[k].xml_baixado = 1

\* C38: the downloader semaphore (taken in baixar_xml_individual) and the
\* client semaphore (taken per attempt in call_api and kept during the 429 and
\* 5xx backoff sleeps) never deadlock: every task of an async run ends holding
\* no permit, so that when baixar_xmls returns both semaphores are back at
\* their initial counts, and under fairness baixar_xmls does return.
Thm_C38 ==
    /\ [](run.modo = "async" =>
            /\ run.csem = run.calls_per_second
                              - Cardinality({k \in DOMAIN tarefa :
                                     tarefa[k].pc \in {"post", "dorme_dentro"}})
            /\ (run.fase = "fim" =>
                  /\ \A k \in DOMAIN tarefa : Terminou(tarefa[k])
                  /\ run.csem = run.calls_per_second
                  /\ run.dsem = TamanhoSemaforoDownload(run.calls_per_second)))
    /\ \A k \in Chaves :
          (k \in DOMAIN tarefa /\ run.modo = "async")
              ~> (k \in DOMAIN tarefa /\ Terminou(tarefa[k]))
    /\ (run.modo = "async" ~> run.fase = "fim")

\* C38 witness: an async run with more tasks than permits returned with both
\* semaphores full again, after one task had slept and retried before it
\* downloaded its record and another ran out of attempts sleeping.
Wit_C38 ==
    /\ run.modo = "async"
    /\ run.fase = "fim"
    /\ Cardinality(DOMAIN tarefa) > run.calls_per_second
    /\ run.csem = run.calls_per_second
    /\ run.dsem = run.calls_per_second
    /\ \E k, j \in DOMAIN tarefa :
          /\ tarefa[k].pc = "feito" /\ tarefa[k].attempt > 1
          /\ tarefa[j].pc = "falhou" /\ tarefa[j].motivo = "fetch"

(***************************************************************************)
(* Claims about Downloader runs one after the other (SpecResume).          *)
(***************************************************************************)

Cex_C18 ==
    (run.execucao >= 2 /\ run.anterior.interrompida /\ run.fase # "inicio") =>
        DOMAIN tarefa = run.anterior.pendentes \ run.anterior.escritas

(***************************************************************************)
(* Claims about the upsert (checked under SpecUpsert).                     *)
(***************************************************************************)

Upserts == {"salvar_varias_notas", "salvar_nota"}

Cex_C5 ==
    ret.op = "salvar_varias_notas" =>
        /\ ret.inseridos = ret.adicionadas
        /\ ret.duplicatas = ret.validos - ret.adicionadas
        /\ ret.inseridos + ret.duplicatas = ret.validos
        /\ ret.inseridos >= 0
        /\ ret.duplicatas >= 0

\* C29 (the claim as stated): a call of salvar_varias_notas is all-or-nothing:
\* when it has returned or raised, either every valid record of the list whose
\* key was not yet a row is in the store or none of them is, also when the
\* database rejects one of the lots.
Cex_C29 ==
    [][ ret'.op \in {"salvar_varias_notas", "salvar_varias_notas_bd"} =>
          \/ ret'.novas \subseteq DOMAIN store'
          \/ ret'.novas \cap DOMAIN store' = {} ]_vars

(***************************************************************************)
(* Claims about the client (checked under SpecClient).                     *)
(***************************************************************************)

\* The errors the spec calls retryable: 429, 5xx, network error, timeout.
Retentaveis == {"429", "5xx", "erro_rede", "timeout"}

TodasRetentaveis == \A i \in DOMAIN inv.hist : inv.hist[i] \in Retentaveis

\* C7: one logical invoke (wrapper plus client) issues at most max_retries = 5
\* HTTP requests in total, and when every attempt failed with a retryable
\* error it ends by raising a permanent error that names the method and the
\* attempt count.
Thm_C7 ==
    /\ inv.requests <= 5
    /\ (inv.cpc = "fim" /\ inv.result.tipo # "ok" /\ TodasRetentaveis)
          => /\ inv.result.tipo = "RuntimeError"
             /\ inv.result.metodo = inv.metodo
             /\ inv.result.tentativas = 5
             /\ inv.requests = 5

\* C7 witness: five retryable failures in a row ended the invoke.
Wit_C7 ==
    /\ inv.cpc = "fim"
    /\ inv.requests = 5
    /\ TodasRetentaveis
    /\ inv.result.tipo = "RuntimeError"

\* C8 (the claim as stated): a 4xx answer other than 429 is the last request of
\* the invoke, which then ends with an error propagated to the caller.
Cex_C8 ==
    \A i \in DOMAIN inv.hist :
        inv.hist[i] = "4xx" =>
            /\ i = Len(inv.hist)
            /\ inv.cpc = "fim" => inv.result.tipo \notin {"ok", "nenhum"}

\* C9 (the claim as stated): a 2xx answer whose body is not a dict is not
\* retried: it is the last request of the invoke, and when it is the first
\* answer exactly one HTTP request is issued.
Cex_C9 ==
    \A i \in DOMAIN inv.hist :
        inv.hist[i] = "200_nao_dict" =>
            /\ i = Len(inv.hist)
            /\ (i = 1 => inv.requests = 1)

\* The waits that were followed by a retry: wait k precedes request k + 1.
EsperasComRetry == 1 .. (inv.requests - 1)

\* 429, 429, success: one success after exactly two retries, waits 2 s then
\* 4 s (4 and 8 half seconds).
ExemploDuas429 ==
    (inv.hist = <<"429", "429", "200_dict">>)
        => /\ inv.result.tipo = "ok"
           /\ inv.requests = 3
           /\ inv.waits = <<4, 8>>

NumDias == 2
Dias == 1 .. NumDias

\* Date strings: dd/07/2025, 2025-07-dd, a string no format matches, and
\* None / SQL NULL.
DataBr(d) == [fmt |-> "br", dia |-> d]
DataIso(d) == [fmt |-> "iso", dia |-> d]
DataInvalida == [fmt |-> "invalida", dia |-> 0]
DataNula == [fmt |-> "nulo", dia |-> 0]

\* utils.py:686-747 normalizar_data, on date strings: strptime with the
\* format the separator selects, then strftime("%Y-%m-%d"); None otherwise.
normalizar_data_valor(d) ==
    IF d.fmt \in {"br", "iso"} THEN DataIso(d.dia) ELSE DataNula

\* utils.py:3554-3556: ano, mes, dia = data.split('-'); int(f"{ano}{mes}{dia}")
\* of an ISO date.
AnoMesDia(d) == 20250700 + d.dia

\* utils.py:2643-2644 CAST(REPLACE(x, '-', '') AS INTEGER) of a non-null date
\* string: SQLite casts the longest numeric prefix, the whole of '202507dd',
\* the 'dd' of 'dd/07/2025', 0 when there is none.
CastReplace(d) ==
    CASE d.fmt = "iso" -> 20250700 + d.dia
      [] d.fmt = "br"  -> d.dia
      [] OTHER         -> 0

\* The records submitted to the upsert: every mandatory field of
\* _validar_registro_nota is present; the emission date may be unparseable,
\* and nIdPedido is 0 for a note without an order.
RegistrosCompletos ==
    [ chave : Chaves, nIdNF : {1}, nIdPedido : {0, 1},
      dEmi : {DataBr(d) : d \in Dias} \cup {DataInvalida},
      dReg : {DataBr(NumDias)}, nNF : {"ok"} ]

\* utils.py:930-953 transformar_em_tuple with every column the later
\* operations read, and the schema defaults of SCHEMA_NOTAS_CREATE for the
\* columns SCHEMA_NOTAS_INSERT does not list (anomesdia NULL, xml_vazio 0).
TuplaCompleta(r) ==
    [ cChaveNFe       |-> r.chave,
      nIdNF           |-> r.nIdNF,
      nIdPedido       |-> r.nIdPedido,
      dEmi            |-> normalizar_data_valor(r.dEmi),
      dReg            |-> r.dReg,
      nNF             |-> r.nNF,
      xml_baixado     |-> 0,
      anomesdia       |-> NULO,
      caminho_arquivo |-> NULO,
      xml_vazio       |-> 0 ]

\* utils.py:2950-2964: a row matches the WHERE clause when one of cChaveNFe,
\* nIdNF, nIdPedido, dEmi, dReg, nNF IS NULL, is blank, = 0 or is '-'.
RegistroInvalido(row) ==
    \/ row.nIdNF = NULO
    \/ row.nIdPedido = NULO
    \/ row.dEmi = DataNula
    \/ row.dReg = DataNula
    \/ row.nNF = "vazio"

\* utils.py:2939-2978 remover_registros_com_campos_essenciais_invalidos_e_listar_dias
\* (also bound to remover_registros_sem_dEmi_e_listar_dias): SELECT DISTINCT
\* dReg of the matching rows, then DELETE them.
remover_registros_com_campos_essenciais_invalidos_e_listar_dias(st) ==
    LET invalidos == {k \in DOMAIN st : RegistroInvalido(st[k])} IN
    [ st   |-> [k \in DOMAIN st \ invalidos |-> st[k]],
      dias |-> {st[k].dReg : k \in invalidos} \ {DataNula} ]

\* utils.py:3499-3591 atualizar_anomesdia: for the rows with a dEmi and no
\* anomesdia, anomesdia = YYYYMMDD of normalizar_data(dEmi).
atualizar_anomesdia(st) ==
    [k \in DOMAIN st |->
        IF /\ st[k].dEmi # DataNula
           /\ st[k].anomesdia = NULO
           /\ normalizar_data_valor(st[k].dEmi) # DataNula
        THEN [st[k] EXCEPT !.anomesdia = AnoMesDia(normalizar_data_valor(st[k].dEmi))]
        ELSE st[k]]

\* utils.py:2812-2856 _indexar_xmls_por_chave_com_dados: the keys with a file
\* on disk; nomes[k] is the day in the name {nNF}_{YYYYMMDD}_{chave}.xml.
xml_index(dk) == {k \in DOMAIN dk : dk[k] # "ausente"}

\* utils.py:2520-2522: xml_vazio = 1 if st_size < 100 else 0. Here the
\* content "xml" is a file of 100 bytes or more, "vazio" a shorter one.
XmlVazioPorTamanho(conteudo) == IF conteudo = "xml" THEN 0 ELSE 1

\* utils.py:2367-2700 atualizar_campos_registros_pendentes: for every row
\* with xml_baixado = 0 whose key is in the index, the UPDATE of lines
\* 2634-2648. dEmi is taken from the file name only when the row has none.
atualizar_campos_registros_pendentes(st, dk, nomes) ==
    [k \in DOMAIN st |->
        IF st[k].xml_baixado = 0 /\ k \in xml_index(dk)
        THEN LET novo_dEmi == IF st[k].dEmi = DataNula
                              THEN DataIso(nomes[k]) ELSE DataNula
                 coalesce  == IF novo_dEmi # DataNula THEN novo_dEmi ELSE st[k].dEmi
             IN [st[k] EXCEPT
                    !.xml_baixado = 1,
                    !.caminho_arquivo = k,
                    !.xml_vazio = XmlVazioPorTamanho(dk[k]),
                    !.dEmi = coalesce,
                    !.anomesdia = IF @ # NULO THEN @
                                  ELSE IF coalesce # DataNula
                                  THEN CastReplace(coalesce) ELSE NULO]
        ELSE st[k]]

\* utils.py:2165-2212 atualizar_dEmi_registros_pendentes: for the pending rows
\* without a dEmi whose XML is found and parses, dEmi = normalizar_data of the
\* dEmi element; datas[k] is the day the XML of key k holds.
atualizar_dEmi_registros_pendentes(st, dk, datas) ==
    [k \in DOMAIN st |->
        IF st[k].xml_baixado = 0 /\ st[k].dEmi = DataNula /\ dk[k] = "xml"
        THEN [st[k] EXCEPT !.dEmi = normalizar_data_valor(DataIso(datas[k]))]
        ELSE st[k]]

\* utils.py:612-676 limpar_registros_invalidos_reprocessados(db_path, dias):
\* nothing for an empty list; otherwise
\* DELETE FROM notas WHERE xml_baixado = 0 AND dEmi IN (dias).
limpar_registros_invalidos_reprocessados(st, dias) ==
    IF dias = {} THEN st
    ELSE LET removidos == {k \in DOMAIN st :
                              st[k].xml_baixado = 0 /\ st[k].dEmi \in dias}
         IN [k \in DOMAIN st \ removidos |-> st[k]]

\* What the last call was and what it returned.
RetStore(op, chave, dias) ==
    [op |-> op, chave |-> chave, dias |-> dias, levantou |-> FALSE]

\* salvar_nota / salvar_varias_notas of one record (INSERT OR IGNORE).
InserirNota(r) ==
    /\ store' = InsertOrIgnore(store, TuplaCompleta(r))
    /\ ret' = RetStore("upsert", r.chave, {})
    /\ UNCHANGED <<inv, disk, dlVars>>

\* src/utils.py:127-178 salvar_nota of the first schema, whose tables
\* garantir_coluna_anomesdia (src/src/utils.py:3450-3497) brings to the
\* present one: a plain INSERT that stores the record's dEmi as it came,
\* dd/mm/yyyy; the IntegrityError of an existing key is caught.
InserirNotaLegado(r) ==
    /\ store' = InsertOrIgnore(store, [TuplaCompleta(r) EXCEPT !.dEmi = r.dEmi])
    /\ ret' = RetStore("upsert", r.chave, {})
    /\ UNCHANGED <<inv, disk, dlVars>>

\* A file appears or is rewritten at the path of key k: write_text of a
\* download task, or a file placed by hand.
EscreverArquivo(k, conteudo) ==
    /\ disk' = [disk EXCEPT ![k] = conteudo]
    /\ ret' = RetStore("write_text", k, {})
    /\ UNCHANGED <<inv, store, dlVars>>

\* A caller runs atualizar_status_xml with the path resolved for the key
\* (extrator_async.py:228-240); nothing is raised (utils.py:2139-2140).
AtualizarStatusXml(chave, caminho, xml_vazio) ==
    /\ chave \in Chaves => caminho = chave
    /\ store' = atualizar_status_xml(store, disk, chave, caminho, xml_vazio)
    /\ ret' = RetStore("atualizar_status_xml", chave, {})
    /\ UNCHANGED <<inv, disk, dlVars>>

\* A caller runs marcar_como_baixado with the path resolved for the key;
\* nothing is raised (utils.py:3086-3087).
MarcarComoBaixado(chave, caminho, xml_vazio) ==
    /\ chave \in Chaves => caminho = chave
    /\ store' = marcar_como_baixado(store, chave, caminho, xml_vazio)
    /\ ret' = RetStore("marcar_como_baixado", chave, {})
    /\ UNCHANGED <<inv, disk, dlVars>>

\* A caller runs remover_registros_sem_dEmi_e_listar_dias.
RemoverRegistros ==
    LET r == remover_registros_com_campos_essenciais_invalidos_e_listar_dias(store) IN
    /\ store' = r.st
    /\ ret' = RetStore("remover_registros", ChaveAusente, r.dias)
    /\ UNCHANGED <<inv, disk, dlVars>>

\* A caller runs atualizar_anomesdia.
AtualizarAnomesdia ==
    /\ store' = atualizar_anomesdia(store)
    /\ ret' = RetStore("atualizar_anomesdia", ChaveAusente, {})
    /\ UNCHANGED <<inv, disk, dlVars>>

\* A caller runs atualizar_campos_registros_pendentes.
AtualizarCamposPendentes(nomes) ==
    /\ store' = atualizar_campos_registros_pendentes(store, disk, nomes)
    /\ ret' = RetStore("atualizar_campos_registros_pendentes", ChaveAusente, {})
    /\ UNCHANGED <<inv, disk, dlVars>>

\* A caller runs atualizar_dEmi_registros_pendentes.
AtualizarDEmiPendentes(datas) ==
    /\ store' = atualizar_dEmi_registros_pendentes(store, disk, datas)
    /\ ret' = RetStore("atualizar_dEmi_registros_pendentes", ChaveAusente, {})
    /\ UNCHANGED <<inv, disk, dlVars>>

\* A caller runs limpar_registros_invalidos_reprocessados for a list of days
\* (format YYYY-MM-DD).
LimparReprocessados(dias) ==
    /\ store' = limpar_registros_invalidos_reprocessados(store, dias)
    /\ ret' = RetStore("limpar_registros_invalidos_reprocessados", ChaveAusente, dias)
    /\ UNCHANGED <<inv, disk, dlVars>>

InitStore ==
    /\ inv = InitInvoke("ListarNF")
    /\ store = << >>
    /\ disk = [k \in Chaves |-> "ausente"]
    /\ ret = RetStore("nenhuma", ChaveAusente, {})
    /\ run = << >>
    /\ tarefa = << >>
    /\ escritas = {}
    /\ colheita = << >>

NextStore ==
    \/ \E r \in RegistrosCompletos : InserirNota(r)
    \/ \E r \in RegistrosCompletos :
          r.dEmi # DataInvalida /\ r.nIdPedido = 1 /\ InserirNotaLegado(r)
    \/ \E k \in Chaves, conteudo \in {"vazio", "xml"} : EscreverArquivo(k, conteudo)
    \/ \E chave \in Chaves \cup {ChaveAusente}, caminho \in Chaves, xml_vazio \in {0, 1} :
          AtualizarStatusXml(chave, caminho, xml_vazio)
    \/ \E chave \in Chaves \cup {ChaveAusente}, caminho \in Chaves, xml_vazio \in {0, 1} :
          MarcarComoBaixado(chave, caminho, xml_vazio)
    \/ RemoverRegistros
    \/ AtualizarAnomesdia
    \/ \E nomes \in [Chaves -> Dias] : AtualizarCamposPendentes(nomes)
    \/ \E datas \in [Chaves -> Dias] : AtualizarDEmiPendentes(datas)
    \/ \E dias \in SUBSET {DataIso(d) : d \in Dias} : LimparReprocessados(dias)

SpecStore == InitStore /\ [][NextStore]_vars

(***************************************************************************)
(* Claims about the store's operations (checked under SpecStore).          *)
(***************************************************************************)

\* The row equals the old one outside xml_baixado, caminho_arquivo, xml_vazio.
SoStatusMudou(antes, depois) ==
    [depois EXCEPT !.xml_baixado = antes.xml_baixado,
                   !.caminho_arquivo = antes.caminho_arquivo,
                   !.xml_vazio = antes.xml_vazio] = antes

\* C21: atualizar_status_xml and marcar_como_baixado change at most the row
\* whose key is the given key, and of that row only xml_baixado,
\* caminho_arquivo and xml_vazio; when no row has the key the store is left
\* as it was; and no error is raised.
Thm_C21 ==
    [][ ret'.op \in {"atualizar_status_xml", "marcar_como_baixado"} =>
          /\ DOMAIN store' = DOMAIN store
          /\ \A k \in DOMAIN store :
                /\ k # ret'.chave => store'[k] = store[k]
                /\ SoStatusMudou(store[k], store'[k])
          /\ ret'.chave \notin DOMAIN store => store' = store
          /\ ~ret'.levantou ]_vars

\* C21 witness: a status update has just marked the row of its key while
\* another row, still pending, is in the store.
Wit_C21 ==
    /\ ret.op \in {"atualizar_status_xml", "marcar_como_baixado"}
    /\ ret.chave \in DOMAIN store
    /\ store[ret.chave].xml_baixado = 1
    /\ \E j \in DOMAIN store : j # ret.chave /\ store[j].xml_baixado = 0

\* The mandatory fields the claim names: key, emission date, sequence number.
FaltaCampoObrigatorio(row) ==
    \/ row.cChaveNFe = ChaveAusente
    \/ row.dEmi = DataNula
    \/ row.nNF = "vazio"

\* C22 (the claim as stated): the purge deletes exactly the rows whose key,
\* emission date or number is missing, leaves every other row as it was, and
\* returns the distinct emission dates of exactly the deleted rows.
Cex_C22 ==
    [][ ret'.op = "remover_registros" =>
          LET apagadas == {k \in DOMAIN store : FaltaCampoObrigatorio(store[k])} IN
          /\ DOMAIN store' = DOMAIN store \ apagadas
          /\ \A k \in DOMAIN store' : store'[k] = store[k]
          /\ ret'.dias = {store[k].dEmi : k \in apagadas} \ {DataNula} ]_vars

\* C35 (the claim as stated): limpar_registros_invalidos_reprocessados(dias)
\* keeps, unchanged, every row that is downloaded, every row of a date not in
\* dias, and every pending row of those dates whose essential fields are all
\* valid.
Cex_C35 ==
    [][ ret'.op = "limpar_registros_invalidos_reprocessados" =>
          \A k \in DOMAIN store :
              ( \/ store[k].xml_baixado = 1
                \/ store[k].dEmi \notin ret'.dias
                \/ ~RegistroInvalido(store[k]) )
              => (k \in DOMAIN store' /\ store'[k] = store[k]) ]_vars

\* The integer YYYYMMDD of a date of July 2025, in either stored format.
InteiroAAAAMMDD(d) == 20250700 + d.dia

\* C28 (the claim as stated): in every reachable store, a row whose anomesdia
\* is not null has an emission date and anomesdia is the integer YYYYMMDD of
\* it; and an upsert gives the rows it adds a null anomesdia and leaves the
\* anomesdia of the rows that exist as it is.
Cex_C28 ==
    /\ [](\A k \in DOMAIN store :
             store[k].anomesdia # NULO =>
                 /\ store[k].dEmi # DataNula
                 /\ store[k].anomesdia = InteiroAAAAMMDD(store[k].dEmi))
    /\ [][ ret'.op = "upsert" =>
             \A k \in DOMAIN store' :
                 IF k \in DOMAIN store
                 THEN store'[k].anomesdia = store[k].anomesdia
                 ELSE store'[k].anomesdia = NULO ]_vars

(***************************************************************************)
(* PART 7.  Path resolution: gerar_xml_path and gerar_xml_path_otimizado   *)
(* (src/src/utils.py:1064-1257) over the day directory of one emission     *)
(* date and one note number. disk is the day directory: whether it exists, *)
(* whether it has a sub-folder, and the XML files under it.                *)
(***************************************************************************)

\* At most this many XML files under the day directory.
MaxArquivos == 2

\* A key as a caller passes it: the first 44 digits (base) and whether more
\* digits follow them (extra).
ChavesBrutas == [base : Chaves, extra : BOOLEAN]

\* utils.py:979-1010 normalizar_chave_nfe: the digits, cut at 44.
normalizar_chave_nfe(ch) == [ch EXCEPT !.extra = FALSE]

\* File names: "{nNF}_{YYYYMMDD}_{digits}.xml" (prefixo "num_data") or another
\* name carrying the digits, such as "NFe{digits}.xml" (prefixo "outro").
NomesDeArquivo == [prefixo : {"num_data", "outro"}, chave : ChavesBrutas]

\* utils.py:1012-1062 gerar_nome_arquivo_xml: the name is composed with the
\* normalized key.
gerar_nome_arquivo_xml(ch) ==
    [prefixo |-> "num_data", chave |-> normalizar_chave_nfe(ch)]

\* The files that can be under the day directory, directly ("dia") or in its
\* sub-folder ("sub").
ArquivosPossiveis == [pasta : {"dia", "sub"}, nome : NomesDeArquivo]

\* utils.py:1135, 1223: chave_limpa = str(chave).strip(); chave_limpa in
\* xml_path.name. The key as passed, not the normalized one: a name holding
\* 44 digits does not contain a longer key.
ChaveNoNome(ch, nome) ==
    /\ nome.chave.base = ch.base
    /\ ch.extra => nome.chave.extra

\* utils.py:1224: num_nfe_limpo in xml_path.name.
NumeroNoNome(nome) == nome.prefixo = "num_data"

\* The path for creation directly under the day directory.
CaminhoDireto(ch) == [pasta |-> "dia", nome |-> gerar_nome_arquivo_xml(ch)]

\* utils.py:1064-1151 gerar_xml_path: the (dir, path) pairs a call can
\* return; rglob yields the files in the order of the file system, so the
\* first match of a loop is any match.
gerar_xml_path(dk, ch) ==
    LET nome_arquivo == gerar_nome_arquivo_xml(ch)
        exatos   == {f \in dk.arquivos : f.nome = nome_arquivo}
        porChave == {f \in dk.arquivos : ChaveNoNome(ch, f.nome)}
    IN  IF ~dk.existe THEN {CaminhoDireto(ch)}
        ELSE IF exatos # {} THEN exatos
        ELSE IF porChave # {} THEN porChave
        ELSE {CaminhoDireto(ch)}

\* utils.py:1154-1257 gerar_xml_path_otimizado: as above, with the search by
\* key and number before the search by key, and the first sub-folder as the
\* place of creation when nothing matches.
gerar_xml_path_otimizado(dk, ch) ==
    LET nome_arquivo == gerar_nome_arquivo_xml(ch)
        exatos    == {f \in dk.arquivos : f.nome = nome_arquivo}
        porChaveN == {f \in dk.arquivos :
                         ChaveNoNome(ch, f.nome) /\ NumeroNoNome(f.nome)}
        porChave  == {f \in dk.arquivos : ChaveNoNome(ch, f.nome)}
    IN  IF ~dk.existe THEN {CaminhoDireto(ch)}
        ELSE IF dk.arquivos = {} THEN {CaminhoDireto(ch)}
        ELSE IF exatos # {} THEN exatos
        ELSE IF porChaveN # {} THEN porChaveN
        ELSE IF porChave # {} THEN porChave
        ELSE IF dk.subpasta THEN {[pasta |-> "sub", nome |-> nome_arquivo]}
        ELSE {CaminhoDireto(ch)}

\* mkdir of the day directory (extrator_async.py:230).
CriarPastaDia ==
    /\ ~disk.existe
    /\ disk' = [disk EXCEPT !.existe = TRUE]
    /\ UNCHANGED <<inv, store, ret, dlVars>>

\* A sub-folder is made under the day directory (the organiser of the
\* compactador moves files into {dia}_pasta_{n}, compactador_resultado.py:58).
CriarSubpasta ==
    /\ disk.existe
    /\ ~disk.subpasta
    /\ disk' = [disk EXCEPT !.subpasta = TRUE]
    /\ UNCHANGED <<inv, store, ret, dlVars>>

\* A file is written under the day directory or its sub-folder.
CriarArquivo(f) ==
    /\ disk.existe
    /\ f.pasta = "sub" => disk.subpasta
    /\ f \notin disk.arquivos
    /\ Cardinality(disk.arquivos) < MaxArquivos
    /\ disk' = [disk EXCEPT !.arquivos = @ \cup {f}]
    /\ UNCHANGED <<inv, store, ret, dlVars>>

\* One call of a resolver; n is the parity of the number of calls so far.
Resolver(variante, ch) ==
    /\ \E res \in IF variante = "gerar_xml_path"
                  THEN gerar_xml_path(disk, ch)
                  ELSE gerar_xml_path_otimizado(disk, ch) :
          ret' = [op |-> "resolve", n |-> 1 - ret.n, variante |-> variante,
                  chave |-> ch, res |-> res]
    /\ UNCHANGED <<inv, store, disk, dlVars>>

InitResolve ==
    /\ inv = InitInvoke("ListarNF")
    /\ store = << >>
    /\ disk = [existe |-> FALSE, subpasta |-> FALSE, arquivos |-> {}]
    /\ ret = [op |-> "nenhuma", n |-> 0, variante |-> "gerar_xml_path",
              chave |-> [base |-> 1, extra |-> FALSE],
              res |-> CaminhoDireto([base |-> 1, extra |-> FALSE])]
    /\ run = << >>
    /\ tarefa = << >>
    /\ escritas = {}
    /\ colheita = << >>

NextResolve ==
    \/ CriarPastaDia
    \/ CriarSubpasta
    \/ \E f \in ArquivosPossiveis : CriarArquivo(f)
    \/ \E variante \in {"gerar_xml_path", "gerar_xml_path_otimizado"},
          ch \in ChavesBrutas : Resolver(variante, ch)

SpecResolve == InitResolve /\ [][NextResolve]_vars

(***************************************************************************)
(* Claims about path resolution (checked under SpecResolve).               *)
(***************************************************************************)

\* C23 (the claim as stated): two calls of the same resolver with the same
\* key, date, number and base directory return the same (dir, path),
\* whatever was created under the day directory between them.
Cex_C23 ==
    [][ ( /\ ret.op = "resolve"
          /\ ret'.n # ret.n
          /\ ret'.variante = ret.variante
          /\ ret'.chave = ret.chave )
        => ret'.res = ret.res ]_vars

\* The files whose name contains the 44-digit normalized key of ch.
ContemChaveNormalizada(dk, ch) ==
    {f \in dk.arquivos : f.nome.chave.base = ch.base}

\* C24 (the claim as stated): gerar_xml_path returns a file named exactly
\* with the deterministic name when one exists; otherwise a file whose name
\* contains the 44-digit normalized key when one exists; and only otherwise
\* the canonical path directly under the day directory.
Cex_C24 ==
    [][ (ret'.n # ret.n /\ ret'.variante = "gerar_xml_path") =>
          LET ch     == ret'.chave
              exatos == {f \in disk.arquivos : f.nome = gerar_nome_arquivo_xml(ch)}
              contem == ContemChaveNormalizada(disk, ch)
          IN  IF exatos # {} THEN ret'.res \in exatos
              ELSE IF contem # {} THEN ret'.res \in contem
              ELSE ret'.res = CaminhoDireto(ch) ]_vars

(***************************************************************************)
(* PART 8.  A Downloader run (extrator_async.py baixar_xmls) and a         *)
(* Reconciler run (utils.py atualizar_campos_registros_pendentes) on the   *)
(* same store and the same result directory, step by step: each query,     *)
(* each file write, each stat and each UPDATE is one step. disk[k] is the  *)
(* file at the path of key k: "ausente", "pequeno" (an XML shorter than    *)
(* 100 bytes) or "grande". escritas records what each writer wrote.        *)
(***************************************************************************)

\* The three fields of a row both writers set.
StatusDaLinha(row) ==
    [ xml_baixado |-> row.xml_baixado, caminho_arquivo |-> row.caminho_arquivo,
      xml_vazio |-> row.xml_vazio ]

\* A write of the status of the row of key k by one of the two writers.
Escrita(quem, k, row) == [quem |-> quem, chave |-> k, val |-> StatusDaLinha(row)]

\* extrator_async.py:280-320: the Downloader's query of the pending rows;
\* one task per row (line 348, asyncio.gather).
DlLer ==
    /\ run.dl = "nao"
    /\ run' = [run EXCEPT !.dl = "lido"]
    /\ tarefa' = [k \in Chaves |->
                     IF store[k].xml_baixado = 0 THEN "espera" ELSE "nao"]
    /\ UNCHANGED <<inv, store, disk, ret, escritas, colheita>>

\* extrator_async.py:232-237: the task of key k receives the XML and writes
\* it at the path of k.
DlEscrever(k, payload) ==
    /\ tarefa[k] = "espera"
    /\ disk' = [disk EXCEPT ![k] = payload]
    /\ tarefa' = [tarefa EXCEPT ![k] = "escrito"]
    /\ UNCHANGED <<inv, store, ret, run, escritas, colheita>>

\* extrator_async.py:238: atualizar_status_xml(db_name, chave, caminho,
\* xml_str, rebaixado), xml_vazio left at its default 0.
DlAtualizar(k) ==
    /\ tarefa[k] = "escrito"
    /\ store' = atualizar_status_xml(store, disk, k, k, 0)
    /\ escritas' = escritas \cup {Escrita("downloader", k, store'[k])}
    /\ tarefa' = [tarefa EXCEPT ![k] = "fim"]
    /\ UNCHANGED <<inv, disk, ret, run, colheita>>

\* utils.py:2402: xml_index = _indexar_xmls_por_chave_com_dados(resultado_dir).
RcIndexar ==
    /\ run.rc = "nao"
    /\ run' = [run EXCEPT !.rc = "indexado",
                          !.index = {k \in Chaves : disk[k] # "ausente"}]
    /\ UNCHANGED <<inv, store, disk, ret, tarefa, escritas, colheita>>

\* utils.py:2415-2480: the Reconciler's query of the rows with xml_baixado = 0.
RcLer ==
    /\ run.rc = "indexado"
    /\ run' = [run EXCEPT !.rc = "lido",
                          !.pendentes = {k \in Chaves : store[k].xml_baixado = 0}]
    /\ UNCHANGED <<inv, store, disk, ret, tarefa, escritas, colheita>>

\* utils.py:2508-2529: for a pending key of the index the file is looked at:
\* xml_vazio = 1 if st_size < 100 else 0, xml_baixado = 1.
RcVerificar(k) ==
    /\ run.rc = "lido"
    /\ k \in run.pendentes \cap run.index
    /\ k \notin {v.chave : v \in run.verificados}
    /\ disk[k] # "ausente"
    /\ run' = [run EXCEPT !.verificados = @ \cup
                 {[chave |-> k,
                   xml_vazio |-> IF disk[k] = "grande" THEN 0 ELSE 1]}]
    /\ UNCHANGED <<inv, store, disk, ret, tarefa, escritas, colheita>>

\* utils.py:2634-2670: the batch UPDATE of the rows looked at.
RcAtualizar ==
    /\ run.rc = "lido"
    /\ {v.chave : v \in run.verificados} = run.pendentes \cap run.index
    /\ store' = [k \in DOMAIN store |->
                    IF \E v \in run.verificados : v.chave = k
                    THEN LET v == CHOOSE v \in run.verificados : v.chave = k IN
                         [store[k] EXCEPT !.xml_baixado = 1,
                                          !.caminho_arquivo = k,
                                          !.xml_vazio = v.xml_vazio]
                    ELSE store[k]]
    /\ escritas' = escritas \cup
          {Escrita("reconciler", v.chave, store'[v.chave]) : v \in run.verificados}
    /\ run' = [run EXCEPT !.rc = "fim"]
    /\ UNCHANGED <<inv, disk, ret, tarefa, colheita>>

InitRace ==
    /\ inv = InitInvoke("ListarNF")
    /\ store = [k \in Chaves |-> LinhaPendente(k, "iso")]
    /\ disk = [k \in Chaves |-> "ausente"]
    /\ ret = SemRetorno
    /\ run = [dl |-> "nao", rc |-> "nao", index |-> {}, pendentes |-> {},
              verificados |-> {}]
    /\ tarefa = [k \in Chaves |-> "nao"]
    /\ escritas = {}
    /\ colheita = << >>

NextRace ==
    \/ DlLer
    \/ \E k \in Chaves, payload \in {"pequeno", "grande"} : DlEscrever(k, payload)
    \/ \E k \in Chaves : DlAtualizar(k)
    \/ RcIndexar
    \/ RcLer
    \/ \E k \in Chaves : RcVerificar(k)
    \/ RcAtualizar

SpecRace == InitRace /\ [][NextRace]_vars

(***************************************************************************)
(* Claims about the two writers (checked under SpecRace).                  *)
(***************************************************************************)

\* Both runs are over: every task of the Downloader ended and the Reconciler
\* made its UPDATE.
AmbosTerminaram ==
    /\ run.dl = "lido"
    /\ run.rc = "fim"
    /\ \A k \in Chaves : tarefa[k] \in {"nao", "fim"}

\* C26 (the claim as stated): when both runs are over, a row that both the
\* Downloader and the Reconciler wrote holds the values either of them
\* wrote: the terminal xml_baixado, caminho_arquivo and xml_vazio are the
\* same whichever writer was last.
Cex_C26 ==
    AmbosTerminaram =>
        \A w \in escritas :
            (\E v \in escritas : v.chave = w.chave /\ v.quem # w.quem)
                => StatusDaLinha(store[w.chave]) = w.val

(***************************************************************************)
(* PART 9.  The three minimum-interval gates, with a clock that ticks:     *)
(*   "lock"   extrator_async.respeitar_limite_requisicoes (global          *)
(*            ULTIMA_REQUISICAO under threading.Lock), callers are threads *)
(*   "async"  utils.respeitar_limite_requisicoes_async (global             *)
(*            _ultima_chamada_async), callers are coroutines of one loop:  *)
(*            a step runs from one await to the next                       *)
(*   "local"  utils.respeitar_limite_requisicoes called without            *)
(*            ultima_chamada                                               *)
(* run holds the clock, the global timestamp, the lock and the instant of  *)
(* the last permitted call; tarefa holds each caller's position.           *)
(***************************************************************************)

\* Number of concurrent callers of a gate.
NumChamadores == 2
Chamadores == 1 .. NumChamadores

\* The clock stops here.
MaxTempo == 5

\* min_intervalo = 0.25 s, in ticks of the clock.
min_intervalo == 2

\* No call was permitted yet.
SemPasse == 0 - 1

\* threading.Lock: free when no caller holds it (mutant: always free).
LockLivre_sem_lock(dono) == TRUE

\* threading.Lock: free when no caller holds it.
LockLivre(dono) == dono = 0

\* The timestamp a caller reads: the global one, or the 0.0 of the list made
\* at utils.py:1697-1698 when ultima_chamada is None.
UltimaLida(variante, ultima) == IF variante = "local" THEN 0 ELSE ultima

\* The last statement of a gate, ULTIMA_REQUISICAO = time.monotonic() (or
\* _ultima_chamada_async, or ultima_chamada[0] of the local list), after which
\* the call returns and the lock is released: the call is permitted now.
RunAposEscrita(r, c) ==
    [r EXCEPT !.ultima = IF r.variante = "local" THEN @ ELSE r.agora,
              !.dono = IF @ = c THEN 0 ELSE @,
              !.passe_anterior = r.passe,
              !.passe = r.agora,
              !.quem = c]

\* A caller outside the gate; dormiu tells whether its call in progress slept.
Fora == [pc |-> "fora", visto |-> 0, dormiu |-> FALSE]

\* A thread calls the gate; with LOCK it waits until the lock is free and
\* takes it (extrator_async.py:57).
Chamar(c) ==
    /\ run.variante # "async"
    /\ tarefa[c].pc = "fora"
    /\ run.variante = "lock" => LockLivre(run.dono)
    /\ run' = [run EXCEPT !.dono = IF run.variante = "lock" THEN c ELSE @]
    /\ tarefa' = [tarefa EXCEPT ![c].pc = "entrou"]
    /\ UNCHANGED <<inv, store, disk, ret, escritas, colheita>>

\* The thread reads the clock and the timestamp and decides whether to sleep
\* (extrator_async.py:58-60, utils.py:1700-1703).
Ler(c) ==
    /\ tarefa[c].pc = "entrou"
    /\ LET visto == UltimaLida(run.variante, run.ultima) IN
       tarefa' = [tarefa EXCEPT ![c] =
                     [pc |-> IF run.agora - visto < min_intervalo
                             THEN "dorme" ELSE "pronto",
                      visto |-> visto,
                      dormiu |-> run.agora - visto < min_intervalo]]
    /\ UNCHANGED <<inv, store, disk, ret, run, escritas, colheita>>

\* time.sleep(min_intervalo - tempo_decorrido) is over: no earlier than the
\* timestamp read plus min_intervalo.
Acordar_gate(c) ==
    /\ run.variante # "async"
    /\ tarefa[c].pc = "dorme"
    /\ run.agora >= tarefa[c].visto + min_intervalo
    /\ tarefa' = [tarefa EXCEPT ![c].pc = "pronto"]
    /\ UNCHANGED <<inv, store, disk, ret, run, escritas, colheita>>

\* The thread writes the timestamp and returns.
Escrever(c) ==
    /\ tarefa[c].pc = "pronto"
    /\ run' = RunAposEscrita(run, c)
    /\ tarefa' = [tarefa EXCEPT ![c] = Fora]
    /\ UNCHANGED <<inv, store, disk, ret, escritas, colheita>>

\* A coroutine calls respeitar_limite_requisicoes_async and runs to its await
\* (utils.py:1670-1676), or to its end when no wait is due (line 1678).
ChamarAsync(c) ==
    /\ run.variante = "async"
    /\ tarefa[c].pc = "fora"
    /\ IF run.agora - run.ultima < min_intervalo
       THEN /\ tarefa' = [tarefa EXCEPT ![c] = [pc |-> "dorme", visto |-> run.ultima, dormiu |-> TRUE]]
            /\ run' = run
       ELSE /\ tarefa' = [tarefa EXCEPT ![c] = Fora]
            /\ run' = RunAposEscrita(run, c)
    /\ UNCHANGED <<inv, store, disk, ret, escritas, colheita>>

\* asyncio.sleep is over and the loop resumes the coroutine, which writes the
\* timestamp and returns (utils.py:1676-1678).
RetomarAsync(c) ==
    /\ run.variante = "async"
    /\ tarefa[c].pc = "dorme"
    /\ run.agora >= tarefa[c].visto + min_intervalo
    /\ run' = RunAposEscrita(run, c)
    /\ tarefa' = [tarefa EXCEPT ![c] = Fora]
    /\ UNCHANGED <<inv, store, disk, ret, escritas, colheita>>

\* The clock advances.
Tique ==
    /\ run.agora < MaxTempo
    /\ run' = [run EXCEPT !.agora = @ + 1]
    /\ UNCHANGED <<inv, store, disk, ret, tarefa, escritas, colheita>>

\* time.monotonic() has an arbitrary origin; the timestamps start at 0.0.
InitGate ==
    /\ inv = InitInvoke("ListarNF")
    /\ store = << >>
    /\ disk = << >>
    /\ ret = SemRetorno
    /\ \E variante \in {"lock", "async", "local"}, t0 \in 0 .. min_intervalo :
          run = [variante |-> variante, agora |-> t0, ultima |-> 0, dono |-> 0,
                 passe |-> SemPasse, passe_anterior |-> SemPasse, quem |-> 0]
    /\ tarefa = [c \in Chamadores |-> Fora]
    /\ escritas = {}
    /\ colheita = << >>

NextGate ==
    \/ \E c \in Chamadores : Chamar(c)
    \/ \E c \in Chamadores : Ler(c)
    \/ \E c \in Chamadores : Acordar_gate(c)
    \/ \E c \in Chamadores : Escrever(c)
    \/ \E c \in Chamadores : ChamarAsync(c)
    \/ \E c \in Chamadores : RetomarAsync(c)
    \/ Tique

SpecGate == InitGate /\ [][NextGate]_vars

(***************************************************************************)
(* Claims about the gates (checked under SpecGate).                        *)
(***************************************************************************)

\* The callers between the read of the timestamp and its write.
NaSecao == {c \in Chamadores : tarefa[c].pc \in {"dorme", "pronto"}}

\* C32: with the gate of extrator_async (LOCK), any two consecutive permitted
\* calls are at least min_intervalo apart, whatever the number of callers;
\* and the read-wait-write of ULTIMA_REQUISICAO is atomic: at most one caller
\* is between its read and its write, and the timestamp it read is still the
\* global one.
Thm_C32 ==
    run.variante = "lock" =>
        /\ run.passe_anterior # SemPasse =>
              run.passe - run.passe_anterior >= min_intervalo
        /\ Cardinality(NaSecao) <= 1
        /\ \A c \in NaSecao : tarefa[c].visto = run.ultima

\* C32 witness: two calls were permitted exactly min_intervalo apart and a
\* caller other than the last one permitted holds the lock and sleeps.
Wit_C32 ==
    /\ run.variante = "lock"
    /\ run.passe_anterior # SemPasse
    /\ run.passe - run.passe_anterior = min_intervalo
    /\ \E c \in Chamadores : c # run.quem /\ tarefa[c].pc = "dorme" /\ run.dono = c

\* C33 (the claim as stated): with respeitar_limite_requisicoes_async, any
\* two coroutines that return from the gate one after the other do so at
\* least min_intervalo apart.
Cex_C33 ==
    (run.variante = "async" /\ run.passe_anterior # SemPasse) =>
        run.passe - run.passe_anterior >= min_intervalo

\* C34 (the claim as stated): with respeitar_limite_requisicoes called
\* without ultima_chamada, consecutive returns of a sequence of calls by one
\* caller are at least min_intervalo apart.
Cex_C34 ==
    [][ ( /\ run.variante = "local"
          /\ run'.passe_anterior # SemPasse
          /\ run'.passe_anterior = run.passe
          /\ run'.quem = run.quem
          /\ tarefa[run'.quem].pc = "pronto" )
        => run'.passe - run'.passe_anterior >= min_intervalo ]_vars

(***************************************************************************)
(* PART 10.  criar_lockfile (src/src/utils.py:1573-1600) called by         *)
(* processes that run at the same time. disk is the set of folders that    *)
(* hold a .processando.lock; tarefa is each process: where it is in its    *)
(* call, for which folder, and the lockfiles it was returned.              *)
(***************************************************************************)

\* The folders the processes work on.
PastasLock == {"dia_17", "dia_18"}

SemChamada == [pc |-> "fora", pasta |-> "dia_17", tem |-> {}]

\* utils.py:1589-1592: lockfile = pasta / ".processando.lock"; when it exists
\* RuntimeError is raised, otherwise the call goes on.
VerificarLock(c, pasta) ==
    /\ tarefa[c].pc \in {"fora", "erro"}
    /\ tarefa' = [tarefa EXCEPT ![c].pc = IF pasta \in disk THEN "erro" ELSE "verificou",
                                ![c].pasta = pasta]
    /\ UNCHANGED <<inv, store, disk, ret, run, escritas, colheita>>

\* utils.py:1594-1600: mkdir(parents=True, exist_ok=True), lockfile.touch()
\* (exist_ok defaults to True: an existing file is no error) and the lockfile
\* is returned; an exception of either becomes RuntimeError.
TouchLock(c, ok) ==
    /\ tarefa[c].pc = "verificou"
    /\ IF ok
       THEN /\ disk' = disk \cup {tarefa[c].pasta}
            /\ tarefa' = [tarefa EXCEPT ![c].pc = "fora",
                                        ![c].tem = @ \cup {tarefa[c].pasta}]
       ELSE /\ disk' = disk
            /\ tarefa' = [tarefa EXCEPT ![c].pc = "erro"]
    /\ UNCHANGED <<inv, store, ret, run, escritas, colheita>>

InitLock ==
    /\ inv = InitInvoke("ListarNF")
    /\ store = << >>
    /\ disk = {}
    /\ ret = SemRetorno
    /\ run = << >>
    /\ tarefa = [c \in Chamadores |-> SemChamada]
    /\ escritas = {}
    /\ colheita = << >>

NextLock ==
    \/ \E c \in Chamadores, pasta \in PastasLock : VerificarLock(c, pasta)
    \/ \E c \in Chamadores, ok \in BOOLEAN : TouchLock(c, ok)

SpecLock == InitLock /\ [][NextLock]_vars

(***************************************************************************)
(* Claims about criar_lockfile (checked under SpecLock).                   *)
(***************************************************************************)

\* C36 (the claim as stated): for every folder, at most one process was
\* returned its lockfile; two processes never both hold the lock.
Cex_C36 ==
    \A pasta \in PastasLock :
        Cardinality({c \in Chamadores : pasta \in tarefa[c].tem}) <= 1


(***************************************************************************)
(* PART 11.  The file index of the Reconciler:                             *)
(* _indexar_xmls_por_chave_com_dados (src/src/utils.py:2812-2935) as       *)
(* atualizar_campos_registros_pendentes calls it (utils.py:2402). disk is  *)
(* the set of XML files under resultado_dir, tarefa the future of each     *)
(* file, run the execution: its index so far and what the execution before *)
(* it over the same files and rows ended with. _indexar_xmls_por_chave     *)
(* (utils.py:2236-2360) has no caller and is not modelled.                 *)
(***************************************************************************)

\* A file is its day folder and the key in its name
\* {nNF}_{YYYYMMDD}_{chave}.xml; chave is NULO for a name that holds no run
\* of 44 digits. Two files of one key lie in different folders.
ArquivosIdx == [pasta : Dias, chave : Chaves \cup {NULO}]

\* The caminho_arquivo of a row that has none.
SemArquivo == [pasta |-> NULO, chave |-> NULO]

\* utils.py:2831-2868 processar_arquivo_xml_com_dados: (chave, path) from the
\* match of PADRAO_NOME or the first run of 44 digits, None without one.
processar_arquivo_xml_com_dados(f) ==
    [achou |-> f.chave # NULO, chave |-> f.chave, caminho |-> f]

\* utils.py:2909-2913: a key already in xml_index counts as a duplicate and
\* the entry stays; a new key is entered with the file.
RegistrarNoIndice(idx, chave, caminho) ==
    IF chave \in DOMAIN idx THEN idx
    ELSE [k \in DOMAIN idx \cup {chave} |->
             IF k = chave THEN caminho ELSE idx[k]]

\* utils.py:2508-2529 and 2634-2648: a pending row whose key is in the index
\* (the file exists; here every file has 100 bytes or more) gets
\* xml_baixado = 1, caminho_arquivo = str(xml_path.resolve()), xml_vazio = 0.
AtualizarPeloIndice(st, idx) ==
    [k \in DOMAIN st |->
        IF st[k].xml_baixado = 0 /\ k \in DOMAIN idx
        THEN [st[k] EXCEPT !.xml_baixado = 1, !.caminho_arquivo = idx[k],
                           !.xml_vazio = 0]
        ELSE st[k]]

\* The rows the Reconciler starts from: every key pending, no path.
LinhasIdx ==
    [k \in Chaves |-> [LinhaPendente(k, "iso") EXCEPT !.caminho_arquivo = SemArquivo]]

SemExecucaoAnterior == [feita |-> FALSE, xml_index |-> << >>, store |-> << >>]

RunIdx(execucao, anterior) ==
    [ fase |-> "inicio", execucao |-> execucao, xml_index |-> << >>,
      duplicatas |-> 0, anterior |-> anterior ]

\* utils.py:2875-2902: rglob("*.xml") and one future per file submitted to the
\* pool; with no file the empty index is returned at once (lines 2884-2887).
SubmeterIdx ==
    /\ run.fase = "inicio"
    /\ tarefa' = [f \in disk |-> "fila"]
    /\ run' = [run EXCEPT !.fase = "indexando"]
    /\ UNCHANGED <<inv, store, disk, ret, escritas, colheita>>

\* A worker thread runs processar_arquivo_xml_com_dados(f): the future of f
\* is done.
ProcessarIdx(f) ==
    /\ run.fase = "indexando"
    /\ f \in DOMAIN tarefa
    /\ tarefa[f] = "fila"
    /\ tarefa' = [tarefa EXCEPT ![f] = "pronto"]
    /\ UNCHANGED <<inv, store, disk, ret, run, escritas, colheita>>

\* utils.py:2904-2916: as_completed yields a future that is done, whichever
\* of them, and the main thread enters its result in the index.
ColherIdx(f) ==
    /\ run.fase = "indexando"
    /\ f \in DOMAIN tarefa
    /\ tarefa[f] = "pronto"
    /\ tarefa' = [tarefa EXCEPT ![f] = "colhido"]
    /\ LET resultado == processar_arquivo_xml_com_dados(f) IN
       run' = IF ~resultado.achou THEN run
              ELSE [run EXCEPT
                      !.xml_index = RegistrarNoIndice(@, resultado.chave,
                                                      resultado.caminho),
                      !.duplicatas = IF resultado.chave \in DOMAIN run.xml_index
                                     THEN @ + 1 ELSE @]
    /\ UNCHANGED <<inv, store, disk, ret, escritas, colheita>>

\* Every future was yielded: the index is returned (utils.py:2927-2935) and
\* atualizar_campos_registros_pendentes reads the pending rows and updates
\* those with a file in the index (utils.py:2406-2660).
AtualizarIdx ==
    /\ run.fase = "indexando"
    /\ \A f \in DOMAIN tarefa : tarefa[f] = "colhido"
    /\ store' = AtualizarPeloIndice(store, run.xml_index)
    /\ run' = [run EXCEPT !.fase = "fim"]
    /\ UNCHANGED <<inv, disk, ret, tarefa, escritas, colheita>>

\* The Reconciler is executed again over the same files and the same rows
\* (the table as it was before the execution that ended).
NovaExecucaoIdx ==
    /\ run.fase = "fim"
    /\ run.execucao < MaxExecucoes
    /\ run' = RunIdx(run.execucao + 1,
                     [feita |-> TRUE, xml_index |-> run.xml_index, store |-> store])
    /\ store' = LinhasIdx
    /\ tarefa' = << >>
    /\ UNCHANGED <<inv, disk, ret, escritas, colheita>>

InitIdx ==
    /\ inv = InitInvoke("ListarNF")
    /\ store = LinhasIdx
    /\ disk \in SUBSET ArquivosIdx
    /\ ret = SemRetorno
    /\ run = RunIdx(1, SemExecucaoAnterior)
    /\ tarefa = << >>
    /\ escritas = {}
    /\ colheita = << >>

NextIdx ==
    \/ SubmeterIdx
    \/ \E f \in ArquivosIdx : ProcessarIdx(f)
    \/ \E f \in ArquivosIdx : ColherIdx(f)
    \/ AtualizarIdx
    \/ NovaExecucaoIdx

SpecIdx == InitIdx /\ [][NextIdx]_vars

(***************************************************************************)
(* Claims about the Reconciler's file index (checked under SpecIdx).       *)
(***************************************************************************)

\* C39 (the claim as stated): two executions of the Reconciler over the same
\* files and rows end with the same index and store the same caminho_arquivo
\* in every row, whatever order the indexing futures completed in.
Cex_C39 ==
    (run.fase = "fim" /\ run.anterior.feita) =>
        /\ run.xml_index = run.anterior.xml_index
        /\ \A k \in DOMAIN store :
              store[k].caminho_arquivo = run.anterior.store[k].caminho_arquivo

=============================================================================
